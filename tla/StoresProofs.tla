----------------------------- MODULE StoresProofs -----------------------------
(* Theorems about what the agents of a user keep and what the requests of a    *)
(* tenant administer - graph knowledge, memories, models, channels and their   *)
(* bindings, agents, pets - for every set of actors and every number of them.  *)
EXTENDS MCStores, FiniteSetTheorems, SequenceTheorems, WellFoundedInduction, TLAPS

-----------------------------------------------------------------------------
(* Graph knowledge.                                                            *)

DocRow  == [status : {"none", "parsing", "chunked", "failed", "deleted"}, chunk_count : Nat]
Spot == Doc \X Nat
EntityRow(k) == [id : 1 .. k, name_norm : EntityName, status : {"pending", "approved"}, source : SUBSET Spot]
EdgeRow(k) == [s : 1 .. k, t : 1 .. k, status : {"pending", "approved"}, source : SUBSET Spot, job : Job]
JobRow  == [status : {"none", "pending", "running", "done", "failed"}, total : Nat, processed : Nat,
            entities_found : Nat]
JobTask(k) == [pc : {"none", "asked", "begin", "load", "read", "extract", "over", "lost"}, proc : Proc \cup {NoProc},
            todo : SUBSET Spot, names : [EntityName -> 0 .. k], keys : SUBSET (Nat \X Nat), failed : Nat]

AnyEdge == [s : Nat, t : Nat, status : {"pending", "approved"}, source : SUBSET Spot, job : Job]
DropRow == [open : BOOLEAN, chunks : SUBSET Spot]
WipeRow == [at : {"no", "jobs", "graph", "chunks"}, jobs : SUBSET Job, entities : SUBSET Nat, rels : SUBSET AnyEdge,
            chunks : SUBSET Spot]

(* The chunks of a document that are out of reach of its deletion, or of the   *)
(* base's, are of a document that is counted as late.                          *)
DocGood(d) ==
    /\ Present(d) => /\ ChunksOf(d) = Cut(d, doc[d].chunk_count)
                     /\ doc[d].status = "chunked" <=> doc[d].chunk_count > 0
                     /\ ocr[d] # NoProc => doc[d].chunk_count = 0
    /\ doc[d].status = "none" => ChunksOf(d) = {} /\ ocr[d] = NoProc /\ ~drop[d].open
    /\ drop[d].chunks \subseteq ChunksOf(d) /\ drop[d].chunks \cap wipe.chunks = {}
    /\ d \notin late.docs =>
         /\ Present(d) => base
         /\ ~Present(d) => ChunksOf(d) = {}
         /\ drop[d].open => ChunksOf(d) \subseteq drop[d].chunks
         /\ wipe.at = "chunks" => ChunksOf(d) \subseteq wipe.chunks
DocsGood ==
    /\ base \in BOOLEAN /\ doc \in [Doc -> DocRow] /\ ocr \in [Doc -> Proc \cup {NoProc}]
    /\ drop \in [Doc -> DropRow] /\ wipe \in WipeRow /\ late \in [docs : SUBSET Doc, jobs : SUBSET Job]
    /\ chunk \subseteq Spot /\ IsFiniteSet(chunk)
    /\ (wipe.at = "no" => wipe = NoWipe) /\ (wipe.at # "no" => base)
    /\ \A d \in Doc : DocGood(d)

(* What was found in a base is locked by the deletion of the base once its     *)
(* statement is past, or found by a job that is counted as late.               *)
Passed == wipe.at \in {"graph", "chunks"}
FoundLate ==
    /\ Passed => \A e \in entity : e.id \in wipe.entities \/ late.jobs # {}
    /\ Passed => \A q \in rel : q \in wipe.rels \/ q.job \in late.jobs
    /\ ~base => entity = {} \/ late.jobs # {}
    /\ ~base => \A q \in rel : q.job \in late.jobs
GraphGood ==
    /\ ids \in Nat /\ entity \subseteq EntityRow(ids) /\ rel \subseteq EdgeRow(ids)
    /\ FoundLate /\ FoundOnce /\ ShownWhole

Busy(w) == w.pc \in {"load", "read", "extract"}
JobFits(w, x) ==
    /\ w.pc \in {"none", "asked"} => x = NoJob
    /\ w.proc = NoProc <=> w.pc = "none"
    /\ w.pc = "begin" => x = NoJob \/ x.status = "pending"
    /\ w.pc \in {"none", "asked", "begin", "load", "read"} => x.processed = 0 /\ w.failed = 0
    /\ Busy(w) => x = NoJob \/ x.status = "running"
    /\ w.pc = "extract" => 
         /\ IsFiniteSet(w.todo) /\ (x # NoJob => w.failed <= x.processed /\ x.processed + Cardinality(w.todo) = x.total)
    /\ x.status = "done" => w.pc = "over" /\ x.processed = x.total /\ (x.total > 0 => w.failed < x.total)
    /\ x.status = "running" => w.pc \in {"load", "read", "extract", "lost"}
JobKnown(j, x) == x = NoJob \/ (base /\ wipe.at = "no") \/ j \in wipe.jobs \/ j \in late.jobs
JobsGood ==
    /\ job \in [Job -> JobRow] /\ task \in [Job -> JobTask(ids)]
    /\ \A j \in Job : JobFits(task[j], job[j]) /\ JobKnown(j, job[j])
    /\ \A j, k \in Job : Busy(task[j]) /\ Busy(task[k]) /\ task[j].proc = task[k].proc => j = k
    /\ \A r \in rel : task[r.job].pc # "none"
    /\ \A j \in Job : task[j].pc = "extract" =>
         \A q \in rel : task[q.job].proc = task[j].proc => <<q.s, q.t>> \in task[j].keys

GraphInv == DocsGood /\ GraphGood /\ JobsGood


-----------------------------------------------------------------------------
LEMMA NoJobIs == NoJob \in JobRow /\ NoJob.status = "none" /\ NoJob.processed = 0
  BY DEF NoJob, JobRow

LEMMA GraphKnown ==
  ASSUME GraphInv
  PROVE  /\ ids \in Nat /\ chunk \subseteq Spot /\ IsFiniteSet(chunk)
         /\ \A d \in Doc : doc[d] \in DocRow /\ ocr[d] \in Proc \cup {NoProc} /\ DocGood(d)
         /\ \A e \in entity : e \in EntityRow(ids)
         /\ \A r \in rel : r \in EdgeRow(ids)
         /\ \A j \in Job : job[j] \in JobRow /\ task[j] \in JobTask(ids) /\ JobFits(task[j], job[j])
                             /\ JobKnown(j, job[j])
         /\ \A d \in Doc : drop[d] \in DropRow
         /\ late \in [docs : SUBSET Doc, jobs : SUBSET Job] /\ wipe \in WipeRow
         /\ (wipe.at = "no" => wipe = NoWipe) /\ (wipe.at # "no" => base) /\ base \in BOOLEAN
  BY DEF GraphInv, DocsGood, GraphGood, JobsGood

LEMMA CutCount ==
  ASSUME NEW d, NEW n \in Nat
  PROVE  IsFiniteSet(Cut(d, n)) /\ Cardinality(Cut(d, n)) = n
<1> DEFINE f == [i \in 1 .. n |-> <<d, i>>]
<1>1. IsFiniteSet(1 .. n) /\ Cardinality(1 .. n) = n
  BY FS_Interval
<1>2. f \in Bijection(1 .. n, Cut(d, n))
  <2>1. f \in [1 .. n -> Cut(d, n)]
    BY DEF Cut
  <2>2. \A i, k \in 1 .. n : f[i] = f[k] => i = k
    OBVIOUS
  <2>3. \A c \in Cut(d, n) : \E i \in 1 .. n : f[i] = c
    BY DEF Cut
  <2> QED
    BY <2>1, <2>2, <2>3 DEF Bijection, Injection, Surjection, IsInjective
<1> QED
  BY <1>1, <1>2, FS_Bijection DEF ExistsBijection

-----------------------------------------------------------------------------
(* What a step leaves alone.                                                   *)

(* A step on the documents.                                                    *)
LEMMA DocsMove ==
  ASSUME GraphInv, UNCHANGED <<base, graph, jobs, wipe>>, late'.jobs = late.jobs, DocsGood'
  PROVE  GraphInv'
<1>1. GraphGood'
  BY DEF GraphInv, GraphGood, FoundOnce, ShownWhole, FoundLate, Passed, graph, jobs
<1>2. JobsGood'
  BY DEF GraphInv, JobsGood, JobKnown, graph, jobs
<1> QED
  BY <1>1, <1>2 DEF GraphInv

(* A step on one document, counted as late when it is out of reach.            *)
LEMMA OneDoc ==
  ASSUME GraphInv, UNCHANGED <<base, graph, jobs, deletions>>, NEW d \in Doc,
         NEW r \in DocRow, doc' = [doc EXCEPT ![d] = r], r.status \notin {"none", "deleted"},
         NEW p \in Proc \cup {NoProc}, ocr' = [ocr EXCEPT ![d] = p],
         chunk' \subseteq Spot, IsFiniteSet(chunk'),
         \A o \in Doc : o # d => {c \in chunk' : c[1] = o} = {c \in chunk : c[1] = o},
         {c \in chunk' : c[1] = d} = Cut(d, r.chunk_count), ChunksOf(d) = {},
         r.status = "chunked" <=> r.chunk_count > 0, p # NoProc => r.chunk_count = 0,
         late'.jobs = late.jobs, late'.docs \in SUBSET Doc, late.docs \subseteq late'.docs,
         late' \in [docs : SUBSET Doc, jobs : SUBSET Job], d \notin late'.docs => ~OutOfReach(d)
  PROVE  GraphInv'
<1>1. /\ doc' \in [Doc -> DocRow] /\ ocr' \in [Doc -> Proc \cup {NoProc}] /\ doc'[d] = r /\ ocr'[d] = p
      /\ \A o \in Doc : o # d => doc'[o] = doc[o] /\ ocr'[o] = ocr[o]
  BY DEF GraphInv, DocsGood
<1>2. drop' = drop /\ wipe' = wipe /\ base' = base
  BY DEF deletions
<1>3. ASSUME NEW o \in Doc PROVE DocGood(o)'
  <2>1. DocGood(o)
    BY GraphKnown
  <2>2. CASE o = d
    <3>1. Present(d)' /\ ChunksOf(d)' = Cut(d, r.chunk_count) /\ doc'[d].status # "none"
      BY <1>1 DEF Present, ChunksOf
    <3>2. drop'[d].chunks \subseteq ChunksOf(d)' /\ drop'[d].chunks \cap wipe'.chunks = {}
      BY <1>2, <2>1, <2>2 DEF DocGood
    <3>3. d \notin late'.docs => base' /\ ~drop'[d].open /\ wipe'.at # "chunks"
      BY <1>2 DEF OutOfReach
    <3> QED
      BY <1>1, <2>2, <3>1, <3>2, <3>3 DEF DocGood, Cut
  <2>3. CASE o # d
    <3>1. ChunksOf(o)' = ChunksOf(o) /\ (Present(o)' <=> Present(o)) /\ doc'[o] = doc[o] /\ ocr'[o] = ocr[o]
      BY <1>1, <2>3 DEF ChunksOf, Present
    <3> QED
      BY <1>2, <2>1, <3>1 DEF DocGood, Cut
  <2> QED
    BY <2>2, <2>3
<1>4. DocsGood'
  BY <1>1, <1>2, <1>3 DEF GraphInv, DocsGood
<1> QED
  BY <1>2, <1>4, DocsMove

(* Documents are as they were.                                                 *)
LEMMA LateDocsStay ==
  ASSUME GraphInv, UNCHANGED <<base, docs, deletions>>, late'.docs = late.docs,
         late' \in [docs : SUBSET Doc, jobs : SUBSET Job]
  PROVE  DocsGood'
<1>1. doc' = doc /\ chunk' = chunk /\ ocr' = ocr /\ drop' = drop /\ wipe' = wipe /\ base' = base
  BY DEF docs, deletions
<1>2. \A d \in Doc : DocGood(d)'
  <2> TAKE d \in Doc
  <2>1. DocGood(d) /\ ChunksOf(d)' = ChunksOf(d) /\ (Present(d)' <=> Present(d))
    BY <1>1, GraphKnown DEF ChunksOf, Present
  <2> QED
    BY <1>1, <2>1 DEF DocGood
<1> QED
  BY <1>1, <1>2 DEF GraphInv, DocsGood

(* A step on one job: its task becomes w and its row x.                        *)
LEMMA OneJob ==
  ASSUME GraphInv, UNCHANGED <<base, docs, graph, deletions>>, NEW j \in Job,
         late' \in [docs : SUBSET Doc, jobs : SUBSET Job], late'.docs = late.docs, late.jobs \subseteq late'.jobs,
         NEW w \in JobTask(ids), task' = [task EXCEPT ![j] = w],
         NEW x \in JobRow, job' = [job EXCEPT ![j] = x],
         JobFits(w, x), JobKnown(j, x)', w.pc # "none",
         w.proc = task[j].proc \/ task[j].pc = "none",
         Busy(w) => \A k \in Job : k # j /\ Busy(task[k]) => task[k].proc # w.proc,
         w.pc = "extract" => \A q \in rel : task[q.job].proc = w.proc => <<q.s, q.t>> \in w.keys
  PROVE  GraphInv'
<1>1. /\ task' \in [Job -> JobTask(ids)] /\ job' \in [Job -> JobRow] /\ task'[j] = w /\ job'[j] = x
      /\ \A k \in Job : k # j => task'[k] = task[k] /\ job'[k] = job[k]
  BY DEF GraphInv, JobsGood
<1>2. \A q \in rel : q.job \in Job /\ task'[q.job].proc = task[q.job].proc
  <2> TAKE q \in rel
  <2>1. q.job \in Job
    BY GraphKnown DEF EdgeRow
  <2>2. task[q.job].pc # "none"
    BY DEF GraphInv, JobsGood
  <2> QED
    BY <1>1, <2>1, <2>2
<1>3. DocsGood'
  BY LateDocsStay
<1>4. GraphGood'
  <2>1. FoundLate'
    BY DEF GraphInv, GraphGood, FoundLate, Passed, graph, deletions
  <2>2. FoundOnce' /\ ShownWhole'
    BY <1>2 DEF GraphInv, GraphGood, FoundOnce, ShownWhole, graph
  <2> QED
    BY <2>1, <2>2 DEF GraphInv, GraphGood, graph
<1>5. JobsGood'
  <2>1. \A k \in Job : JobFits(task'[k], job'[k]) /\ JobKnown(k, job[k])
    BY <1>1 DEF GraphInv, JobsGood
  <2>6. ASSUME NEW k \in Job PROVE JobKnown(k, job[k])'
    BY <1>1, <2>1 DEF JobKnown, deletions
  <2>2. \A k, l \in Job : Busy(task'[k]) /\ Busy(task'[l]) /\ task'[k].proc = task'[l].proc => k = l
    BY <1>1 DEF GraphInv, JobsGood
  <2>3. \A q \in rel : task'[q.job].pc # "none"
    BY <1>1, <1>2 DEF GraphInv, JobsGood
  <2>4. \A k \in Job : task'[k].pc = "extract" =>
          \A q \in rel : task'[q.job].proc = task'[k].proc => <<q.s, q.t>> \in task'[k].keys
    BY <1>1, <1>2 DEF GraphInv, JobsGood
  <2> QED
    BY <1>1, <2>1, <2>2, <2>3, <2>4, <2>6 DEF JobsGood, graph
<1> QED
  BY <1>3, <1>4, <1>5 DEF GraphInv


(* A step on what was found: edges come from edges that lead as they do.       *)
LEMMA Found ==
  ASSUME GraphInv, UNCHANGED <<base, ids, jobs, wipe, late>>, DocsGood', entity' \subseteq EntityRow(ids),
         NEW g, \A q \in rel \cap wipe.rels : g[q] = q, \A q \in rel : g[q] \in EdgeRow(ids) /\ g[q].s = q.s /\ g[q].t = q.t /\ g[q].job = q.job,
         \A x \in rel' : \E q \in rel : x = g[q],
         \A e \in entity' : \E o \in entity : e.id = o.id, ShownWhole'
  PROVE  GraphInv'
<1>1. \A x \in rel' : \E q \in rel : x = g[q] /\ x \in EdgeRow(ids) /\ x.s = q.s /\ x.t = q.t /\ x.job = q.job
  OBVIOUS
<1>2. FoundOnce'
  <2> SUFFICES ASSUME NEW x \in rel', NEW y \in rel', x.s = y.s, x.t = y.t, task[x.job].proc = task[y.job].proc
               PROVE  x = y
    BY DEF FoundOnce, jobs
  <2>1. PICK q \in rel : x = g[q] /\ x.s = q.s /\ x.t = q.t /\ x.job = q.job
    BY <1>1
  <2>2. PICK r \in rel : y = g[r] /\ y.s = r.s /\ y.t = r.t /\ y.job = r.job
    BY <1>1
  <2>3. q = r
    BY <2>1, <2>2 DEF GraphInv, GraphGood, FoundOnce
  <2> QED
    BY <2>1, <2>2, <2>3
<1>3. GraphGood'
  <2>1. rel' \subseteq EdgeRow(ids)
    BY <1>1
  <2>2. FoundLate'
    <3>1. FoundLate /\ (Passed' <=> Passed)
      BY DEF GraphInv, GraphGood, Passed
    <3>2. Passed => \A e \in entity' : e.id \in wipe.entities \/ late.jobs # {}
      BY <3>1 DEF FoundLate
    <3>3. ASSUME Passed, NEW x \in rel' PROVE x \in wipe.rels \/ x.job \in late.jobs
      BY <1>1, <3>1, <3>3 DEF FoundLate
    <3>4. ~base => (entity' = {} \/ late.jobs # {}) /\ \A x \in rel' : x.job \in late.jobs
      BY <1>1, <3>1 DEF FoundLate
    <3> QED
      BY <3>1, <3>2, <3>3, <3>4 DEF FoundLate
  <2> QED
    BY <1>2, <2>1, <2>2 DEF GraphInv, GraphGood
<1>4. JobsGood'
  <2>1. \A x \in rel' : task[x.job].pc # "none"
    BY <1>1 DEF GraphInv, JobsGood
  <2>2. \A j \in Job : task[j].pc = "extract" =>
          \A x \in rel' : task[x.job].proc = task[j].proc => <<x.s, x.t>> \in task[j].keys
    <3> SUFFICES ASSUME NEW j \in Job, task[j].pc = "extract", NEW x \in rel', task[x.job].proc = task[j].proc
                 PROVE  <<x.s, x.t>> \in task[j].keys
      OBVIOUS
    <3>1. PICK q \in rel : x.s = q.s /\ x.t = q.t /\ x.job = q.job
      BY <1>1
    <3> QED
      BY <3>1 DEF GraphInv, JobsGood
  <2> QED
    BY <2>1, <2>2 DEF GraphInv, JobsGood, JobKnown, jobs
<1> QED
  BY <1>3, <1>4 DEF GraphInv

-----------------------------------------------------------------------------
(* The documents.                                                              *)

LEMMA FilledIs ==
  ASSUME NEW n \in 0 .. MaxChunks
  PROVE  /\ n \in Nat /\ Filled(n) \in DocRow /\ Filled(n).chunk_count = n
         /\ Filled(n).status = "chunked" <=> n > 0
         /\ Filled(n).status \notin {"none", "deleted"}
  BY GraphAssumption DEF Filled, DocRow

LEMMA CutsApart ==
  ASSUME GraphInv, NEW d \in Doc, ChunksOf(d) = {}, NEW n \in 0 .. MaxChunks, chunk' = chunk \cup Cut(d, n)
  PROVE  /\ chunk' \subseteq Spot /\ IsFiniteSet(chunk')
         /\ \A o \in Doc : o # d => {c \in chunk' : c[1] = o} = {c \in chunk : c[1] = o}
         /\ {c \in chunk' : c[1] = d} = Cut(d, Filled(n).chunk_count)
<1>1. n \in Nat /\ \A i \in 1 .. n : i \in Nat
  BY FilledIs
<1>2. chunk \subseteq Spot /\ IsFiniteSet(chunk)
  BY GraphKnown
<1>3. IsFiniteSet(Cut(d, n)) /\ Cut(d, n) \subseteq Spot /\ \A c \in Cut(d, n) : c[1] = d
  <2>1. ASSUME NEW c \in Cut(d, n) PROVE c[1] = d /\ c \in Spot
    <3>1. PICK i \in 1 .. n : c = <<d, i>>
      BY DEF Cut
    <3> QED
      BY <1>1, <3>1 DEF Spot
  <2> QED
    BY <1>1, <2>1, CutCount
<1>4. {c \in chunk : c[1] = d} = {}
  BY DEF ChunksOf
<1>5. IsFiniteSet(chunk \cup Cut(d, n))
  BY <1>2, <1>3, FS_Union
<1>6. \A o \in Doc : o # d => {c \in chunk' : c[1] = o} = {c \in chunk : c[1] = o}
  BY <1>3
<1>7. {c \in chunk' : c[1] = d} = Cut(d, n)
  BY <1>3, <1>4
<1>8. Filled(n).chunk_count = n
  BY FilledIs
<1> QED
  BY <1>2, <1>3, <1>5, <1>6, <1>7, <1>8

(* The status of a document changes.                                           *)
LEMMA StatusOf ==
  ASSUME GraphInv, NEW d \in Doc, NEW s, doc' = [doc EXCEPT ![d].status = s]
  PROVE  doc' = [doc EXCEPT ![d] = [status |-> s, chunk_count |-> doc[d].chunk_count]]
<1>1. doc \in [Doc -> DocRow] /\ doc[d] \in DocRow
  BY DEF GraphInv, DocsGood
<1>2. PICK r : r = [doc[d] EXCEPT !.status = s]
  OBVIOUS
<1>3. r = [status |-> s, chunk_count |-> doc[d].chunk_count]
  BY ONLY <1>1, <1>2 DEF DocRow
<1>4. doc' = [doc EXCEPT ![d] = r]
  BY <1>1, <1>2
<1> QED
  BY <1>3, <1>4

(* What a commit counts as late.                                               *)
LEMMA CommittedIs ==
  ASSUME GraphInv, NEW d \in Doc, Committed(d)
  PROVE  /\ late' \in [docs : SUBSET Doc, jobs : SUBSET Job] /\ late'.jobs = late.jobs
         /\ late.docs \subseteq late'.docs /\ (d \notin late'.docs => ~OutOfReach(d))
<1>1. late \in [docs : SUBSET Doc, jobs : SUBSET Job]
  BY GraphKnown
<1>2. CASE OutOfReach(d)
  <2>1. late' = [late EXCEPT !.docs = late.docs \cup {d}]
    BY <1>2 DEF Committed
  <2> QED
    BY <1>1, <2>1
<1>3. CASE ~OutOfReach(d)
  BY <1>1, <1>3 DEF Committed
<1> QED
  BY <1>2, <1>3

LEMMA FirstTextKeeps ==
  ASSUME GraphInv, NEW d \in Doc, NEW n \in 0 .. MaxChunks, ChunksOf(d) = {}, Committed(d),
         doc' = [doc EXCEPT ![d] = Filled(n)], chunk' = chunk \cup Cut(d, n), ocr' = [ocr EXCEPT ![d] = NoProc],
         UNCHANGED <<base, graph, jobs, deletions>>
  PROVE  GraphInv'
<1>1. PICK r : r = Filled(n)
  OBVIOUS
<1>2. r \in DocRow /\ (r.status = "chunked" <=> r.chunk_count > 0) /\ r.status \notin {"none", "deleted"}
  BY <1>1, FilledIs
<1>3. /\ chunk' \subseteq Spot /\ IsFiniteSet(chunk')
      /\ \A o \in Doc : o # d => {c \in chunk' : c[1] = o} = {c \in chunk : c[1] = o}
      /\ {c \in chunk' : c[1] = d} = Cut(d, r.chunk_count)
  BY <1>1, CutsApart
<1>4. doc' = [doc EXCEPT ![d] = r]
  BY <1>1
<1> QED
  BY <1>2, <1>3, <1>4, CommittedIs, OneDoc

LEMMA AddDocumentKeeps ==
  ASSUME GraphInv, NEW d \in Doc, NEW n \in 0 .. MaxChunks, AddDocument(d, n)
  PROVE  GraphInv'
<1>1. doc[d].status = "none" /\ Committed(d) /\ UNCHANGED <<base, graph, jobs, ocr, deletions>>
      /\ doc' = [doc EXCEPT ![d] = Filled(n)] /\ chunk' = chunk \cup Cut(d, n)
  BY DEF AddDocument, NoDoc
<1>2. ChunksOf(d) = {} /\ ocr[d] = NoProc
  BY <1>1, GraphKnown DEF DocGood
<1>3. ocr' = [ocr EXCEPT ![d] = NoProc]
  BY <1>1, <1>2 DEF GraphInv, DocsGood
<1> QED
  BY <1>1, <1>2, <1>3, FirstTextKeeps

(* The status of a document changes, its chunks do not.                        *)
LEMMA NoTextKeeps ==
  ASSUME GraphInv, NEW d \in Doc, NEW s \in {"parsing", "failed"}, NEW p \in Proc \cup {NoProc}, ChunksOf(d) = {},
         doc[d].chunk_count = 0, doc' = [doc EXCEPT ![d].status = s], ocr' = [ocr EXCEPT ![d] = p],
         late' \in [docs : SUBSET Doc, jobs : SUBSET Job], late'.jobs = late.jobs, late.docs \subseteq late'.docs,
         Present(d) \/ (d \notin late'.docs => ~OutOfReach(d)),
         UNCHANGED <<base, chunk, graph, jobs, deletions>>
  PROVE  GraphInv'
<1>1. PICK r : r = [status |-> s, chunk_count |-> 0]
  OBVIOUS
<1>2. doc' = [doc EXCEPT ![d] = r]
  BY <1>1, StatusOf
<1>3. r \in DocRow /\ r.status \notin {"none", "deleted", "chunked"} /\ r.chunk_count = 0
  BY <1>1 DEF DocRow
<1>4. /\ doc' \in [Doc -> DocRow] /\ ocr' \in [Doc -> Proc \cup {NoProc}] /\ doc'[d] = r /\ ocr'[d] = p
      /\ \A o \in Doc : o # d => doc'[o] = doc[o] /\ ocr'[o] = ocr[o]
  BY <1>2, <1>3 DEF GraphInv, DocsGood
<1>5. drop' = drop /\ wipe' = wipe /\ base' = base /\ chunk' = chunk
  BY DEF deletions
<1>6. ASSUME NEW o \in Doc PROVE DocGood(o)'
  <2>1. DocGood(o) /\ ChunksOf(o)' = ChunksOf(o)
    BY <1>5, GraphKnown DEF ChunksOf
  <2>2. CASE o = d
    <3>1. Present(d)' /\ Cut(d, 0) = {}
      BY <1>3, <1>4 DEF Present, Cut
    <3>2. d \notin late'.docs => base
      <4>1. CASE Present(d)
        BY <2>1, <2>2, <4>1 DEF DocGood
      <4>2. CASE ~Present(d)
        <5>1. d \notin late'.docs => ~OutOfReach(d)
          BY <4>2
        <5> QED
          BY <5>1 DEF OutOfReach
      <4> QED
        BY <4>1, <4>2
    <3> QED
      BY <1>3, <1>4, <1>5, <2>1, <2>2, <3>1, <3>2 DEF DocGood
  <2>3. CASE o # d
    <3>1. (Present(o)' <=> Present(o)) /\ doc'[o] = doc[o] /\ ocr'[o] = ocr[o]
      BY <1>4, <2>3 DEF Present
    <3> QED
      BY <1>5, <2>1, <3>1 DEF DocGood
  <2> QED
    BY <2>2, <2>3
<1>7. DocsGood'
  BY <1>4, <1>5, <1>6 DEF GraphInv, DocsGood
<1> QED
  BY <1>5, <1>7, DocsMove

LEMMA PendingDocumentKeeps ==
  ASSUME GraphInv, NEW d \in Doc, NEW p \in Proc, CreatePendingDocument(d, p)
  PROVE  GraphInv'
<1>1. /\ doc[d] = NoDoc /\ doc' = [doc EXCEPT ![d].status = "parsing"] /\ ocr' = [ocr EXCEPT ![d] = p]
      /\ Committed(d) /\ UNCHANGED <<base, chunk, graph, jobs, deletions>>
  BY DEF CreatePendingDocument
<1>2. doc[d].status = "none" /\ doc[d].chunk_count = 0
  BY <1>1 DEF NoDoc
<1>3. ChunksOf(d) = {}
  BY <1>2, GraphKnown DEF DocGood
<1> QED
  BY <1>1, <1>2, <1>3, CommittedIs, NoTextKeeps

(* A parser that is done leaves the documents as they are.                     *)
LEMMA ParserGone ==
  ASSUME GraphInv, UNCHANGED <<base, doc, chunk, graph, jobs, deletions, late>>,
         ocr' \in [Doc -> Proc \cup {NoProc}], \A d \in Doc : ocr'[d] \in {ocr[d], NoProc}
  PROVE  DocsGood'
<1>1. drop' = drop /\ wipe' = wipe
  BY DEF deletions
<1>2. \A d \in Doc : DocGood(d)'
  <2> TAKE d \in Doc
  <2>1. DocGood(d) /\ ChunksOf(d)' = ChunksOf(d) /\ (Present(d)' <=> Present(d)) /\ ocr'[d] \in {ocr[d], NoProc}
    BY GraphKnown DEF ChunksOf, Present
  <2> QED
    BY <1>1, <2>1 DEF DocGood
<1> QED
  BY <1>1, <1>2 DEF GraphInv, DocsGood

LEMMA OcrKeeps ==
  ASSUME GraphInv, NEW d \in Doc, NEW n \in 0 .. MaxChunks, RunOcrJob(d, n) \/ OcrFails(d)
  PROVE  GraphInv'
<1>1. /\ ocr[d] # NoProc /\ ocr' = [ocr EXCEPT ![d] = NoProc] /\ UNCHANGED <<base, graph, jobs, deletions>>
      /\ \/ doc' = doc /\ chunk' = chunk /\ late' = late
         \/ Present(d) /\ doc' = [doc EXCEPT ![d] = Filled(n)] /\ chunk' = chunk \cup Cut(d, n) /\ Committed(d)
         \/ Present(d) /\ doc' = [doc EXCEPT ![d].status = "failed"] /\ chunk' = chunk /\ late' = late
  BY DEF RunOcrJob, OcrFails
<1>2. DocGood(d) /\ late \in [docs : SUBSET Doc, jobs : SUBSET Job] /\ ocr \in [Doc -> Proc \cup {NoProc}]
  BY GraphKnown DEF GraphInv, DocsGood
<1>3. Present(d) => ChunksOf(d) = {} /\ doc[d].chunk_count = 0
  BY <1>1, <1>2 DEF DocGood, Cut
<1>4. CASE doc' = doc /\ chunk' = chunk /\ late' = late
  <2>1. DocsGood'
    BY <1>1, <1>2, <1>4, ParserGone
  <2> QED
    BY <1>1, <1>4, <2>1, DocsMove DEF deletions
<1>5. CASE Present(d) /\ doc' = [doc EXCEPT ![d] = Filled(n)] /\ chunk' = chunk \cup Cut(d, n) /\ Committed(d)
  BY <1>1, <1>3, <1>5, FirstTextKeeps
<1>6. CASE Present(d) /\ doc' = [doc EXCEPT ![d].status = "failed"] /\ chunk' = chunk /\ late' = late
  <2>1. late' \in [docs : SUBSET Doc, jobs : SUBSET Job] /\ late'.jobs = late.jobs /\ late.docs \subseteq late'.docs
    BY <1>2, <1>6
  <2> QED
    BY <1>1, <1>3, <1>6, <2>1, NoTextKeeps
<1> QED
  BY <1>1, <1>4, <1>5, <1>6

(* A deletion of a document begins, or fails.                                  *)
LEMMA DropMoves ==
  ASSUME GraphInv, NEW d \in Doc, DeleteDocument(d) \/ DropFails(d)
  PROVE  GraphInv'
<1>1. PICK D : /\ drop' = [drop EXCEPT ![d] = D] /\ UNCHANGED <<base, docs, graph, jobs, wipe, late>>
              /\ \/ D = NoDrop
                 \/ D = [open |-> TRUE, chunks |-> ChunksOf(d)] /\ ChunksOf(d) \cap wipe.chunks = {} /\ Present(d)
  BY DEF DeleteDocument, DropFails
<1>2. chunk \subseteq Spot /\ ChunksOf(d) \subseteq chunk /\ drop \in [Doc -> DropRow]
  BY DEF ChunksOf, GraphInv, DocsGood
<1>3. D \in DropRow /\ D.chunks \subseteq ChunksOf(d) /\ D.chunks \cap wipe.chunks = {}
      /\ (D.open => Present(d) /\ D.chunks = ChunksOf(d))
  <2>1. CASE D = NoDrop
    BY <2>1 DEF NoDrop, DropRow
  <2>2. CASE D = [open |-> TRUE, chunks |-> ChunksOf(d)] /\ ChunksOf(d) \cap wipe.chunks = {} /\ Present(d)
    BY <1>2, <2>2 DEF DropRow
  <2> QED
    BY <1>1, <2>1, <2>2
<1>4. /\ drop' \in [Doc -> DropRow] /\ drop'[d] = D /\ \A o \in Doc : o # d => drop'[o] = drop[o]
      /\ doc' = doc /\ chunk' = chunk /\ ocr' = ocr
  BY <1>1, <1>2, <1>3 DEF docs
<1>5. ASSUME NEW o \in Doc PROVE DocGood(o)'
  <2>1. DocGood(o) /\ ChunksOf(o)' = ChunksOf(o) /\ (Present(o)' <=> Present(o))
    BY <1>4, GraphKnown DEF ChunksOf, Present
  <2>2. CASE o = d
    <3>1. Present(d) => doc[d].status # "none"
      BY DEF Present
    <3> QED
      BY <1>1, <1>3, <1>4, <2>1, <2>2, <3>1 DEF DocGood
  <2>3. CASE o # d
    BY <1>1, <1>4, <2>1, <2>3 DEF DocGood
  <2> QED
    BY <2>2, <2>3
<1>6. DocsGood'
  BY <1>1, <1>4, <1>5 DEF GraphInv, DocsGood
<1> QED
  BY <1>1, <1>6, DocsMove

LEMMA CommitDropKeeps ==
  ASSUME GraphInv, NEW d \in Doc, CommitDrop(d)
  PROVE  GraphInv'
<1> DEFINE C == drop[d].chunks
           From(x) == x.source \cap C # {}
           Unsourced(x) == [x EXCEPT !.source = @ \ C]
           g == [q \in rel |-> Unsourced(q)]
<1>1. /\ drop[d].open /\ drop' = [drop EXCEPT ![d] = NoDrop]
      /\ doc' = [doc EXCEPT ![d] = DocDeleted] /\ chunk' = chunk \ C
      /\ entity' = {Unsourced(e) : e \in entity} /\ rel' = {Unsourced(r) : r \in rel}
      /\ UNCHANGED <<base, ids, jobs, wipe, late>> /\ ocr' = ocr
      /\ \A r \in rel : From(r) => r \notin wipe.rels
  BY DEF CommitDrop
<1>2. DocGood(d) /\ C \subseteq ChunksOf(d)
  BY GraphKnown DEF DocGood
<1>3. DocsGood'
  <2>1. /\ DocDeleted \in DocRow /\ DocDeleted.status = "deleted" /\ NoDrop \in DropRow /\ NoDrop.chunks = {} /\ ~NoDrop.open
        /\ doc' \in [Doc -> DocRow] /\ doc'[d] = DocDeleted /\ \A o \in Doc : o # d => doc'[o] = doc[o]
        /\ drop' \in [Doc -> DropRow] /\ drop'[d] = NoDrop /\ \A o \in Doc : o # d => drop'[o] = drop[o]
    BY <1>1 DEF GraphInv, DocsGood, DocDeleted, DocRow, NoDrop, DropRow
  <2>2. chunk' \subseteq Spot /\ IsFiniteSet(chunk')
    BY <1>1, FS_Subset DEF GraphInv, DocsGood
  <2>3. ASSUME NEW o \in Doc PROVE DocGood(o)'
    <3>1. CASE o = d
      <4>1. ChunksOf(o)' = ChunksOf(o) \ C /\ ~Present(o)'
        BY <1>1, <2>1, <3>1 DEF ChunksOf, Present
      <4> QED
        BY <1>1, <1>2, <2>1, <3>1, <4>1 DEF DocGood
    <3>2. CASE o # d
      <4>1. ChunksOf(o)' = ChunksOf(o) /\ (Present(o)' <=> Present(o))
        BY <1>1, <1>2, <2>1, <3>2 DEF ChunksOf, Present
      <4> QED
        BY <1>1, <2>1, <3>2, <4>1 DEF DocGood, GraphInv, DocsGood
    <3> QED
      BY <3>1, <3>2
  <2> QED
    BY <1>1, <2>1, <2>2, <2>3 DEF GraphInv, DocsGood
<1>4. \A e \in entity : /\ Unsourced(e) \in EntityRow(ids) /\ Unsourced(e).id = e.id /\ Unsourced(e).status = e.status
  <2> SUFFICES ASSUME NEW e \in entity
               PROVE  Unsourced(e) \in EntityRow(ids) /\ Unsourced(e).id = e.id /\ Unsourced(e).status = e.status
    OBVIOUS
  <2>1. e \in EntityRow(ids)
    BY GraphKnown
  <2> QED
    BY <2>1 DEF EntityRow
<1>5. ASSUME NEW q \in rel
      PROVE  /\ g[q] \in EdgeRow(ids) /\ g[q].s = q.s /\ g[q].t = q.t /\ g[q].job = q.job /\ g[q].status = q.status
             /\ q \in wipe.rels => g[q] = q
  <2>1. q \in EdgeRow(ids)
    BY GraphKnown
  <2>2. g[q] \in EdgeRow(ids) /\ g[q].s = q.s /\ g[q].t = q.t /\ g[q].job = q.job /\ g[q].status = q.status
    BY <2>1 DEF EdgeRow
  <2>3. ASSUME q \in wipe.rels PROVE g[q] = q
    <3>1. q.source \ C = q.source
      BY <1>1, <2>3
    <3> QED
      BY <2>1, <3>1 DEF EdgeRow
  <2> QED
    BY <2>2, <2>3
<1>6. entity' \subseteq EntityRow(ids) /\ \A e \in entity' : \E o \in entity : e.id = o.id
  BY <1>1, <1>4
<1>7. \A x \in rel' : \E q \in rel : x = g[q]
  BY <1>1
<1>8. ShownWhole'
  <2> SUFFICES ASSUME NEW x \in rel', NEW y \in entity', x.status = "approved", y.id \in {x.s, x.t}
               PROVE  y.status = "approved"
    BY DEF ShownWhole
  <2>1. PICK q \in rel : x = g[q]
    BY <1>7
  <2>2. PICK e \in entity : y = Unsourced(e)
    BY <1>1
  <2> HIDE DEF g, Unsourced
  <2> QED
    BY <1>4, <1>5, <2>1, <2>2 DEF GraphInv, GraphGood, ShownWhole
<1> HIDE DEF g, Unsourced, From, C
<1> QED
  BY <1>1, <1>3, <1>5, <1>6, <1>7, <1>8, Found

(* The deletion of the base moves on, with the rows it finds, or fails.        *)
LEMMA NoWipeIs == NoWipe \in WipeRow /\ NoWipe.at = "no" /\ NoWipe.jobs = {} /\ NoWipe.chunks = {}
  BY DEF NoWipe, WipeRow

LEMMA WipeMoves ==
  ASSUME GraphInv, UNCHANGED <<base, docs, graph, jobs, drop, late>>, wipe' \in WipeRow,
         wipe'.at = "no" => wipe' = NoWipe, wipe'.at # "no" => base, 
         \A d \in Doc : drop[d].chunks \cap wipe'.chunks = {},
         wipe'.at = "chunks" => chunk \subseteq wipe'.chunks,
         Passed' => /\ \A e \in entity : e.id \in wipe'.entities \/ late.jobs # {}
                    /\ \A q \in rel : q \in wipe'.rels \/ q.job \in late.jobs,
         \A j \in Job : JobKnown(j, job[j])'
  PROVE  GraphInv'
<1>1. doc' = doc /\ chunk' = chunk /\ ocr' = ocr
  BY DEF docs
<1>2. \A d \in Doc : DocGood(d)'
  <2> TAKE d \in Doc
  <2>1. DocGood(d) /\ ChunksOf(d)' = ChunksOf(d) /\ (Present(d)' <=> Present(d)) /\ ChunksOf(d) \subseteq chunk
    BY <1>1, GraphKnown DEF ChunksOf, Present
  <2> QED
    BY <1>1, <2>1 DEF DocGood
<1>3. DocsGood'
  BY <1>1, <1>2 DEF GraphInv, DocsGood
<1>4. GraphGood'
  BY DEF GraphInv, GraphGood, FoundOnce, ShownWhole, FoundLate, graph, jobs
<1>5. JobsGood'
  BY DEF GraphInv, JobsGood, graph, jobs
<1> QED
  BY <1>3, <1>4, <1>5 DEF GraphInv

LEMMA WipeKeeps ==
  ASSUME GraphInv, DeleteKb \/ WipeGraph \/ WipeChunks \/ WipeFails
  PROVE  GraphInv'
<1>1. /\ wipe \in WipeRow /\ (wipe.at = "no" => wipe = NoWipe) /\ (wipe.at # "no" => base) /\ FoundLate
      /\ \A d \in Doc : drop[d].chunks \cap wipe.chunks = {}
      /\ \A j \in Job : JobKnown(j, job[j])
  BY GraphKnown DEF GraphInv, GraphGood, DocGood
<1>2. CASE DeleteKb
  <2>1. /\ base /\ wipe = NoWipe /\ UNCHANGED <<base, docs, graph, jobs, drop, late>>
        /\ wipe' = [wipe EXCEPT !.at = "jobs", !.jobs = {j \in Job : job[j] # NoJob}]
    BY <1>2 DEF DeleteKb
  <2>2. wipe' \in WipeRow /\ wipe'.at = "jobs" /\ wipe'.jobs = {j \in Job : job[j] # NoJob} /\ wipe'.chunks = wipe.chunks
    BY <1>1, <2>1 DEF WipeRow
  <2>3. ~Passed' /\ \A j \in Job : JobKnown(j, job[j])'
    BY <2>1, <2>2 DEF Passed, JobKnown, jobs
  <2> QED
    BY <1>1, <2>1, <2>2, <2>3, WipeMoves
<1>3. CASE WipeGraph
  <2>1. /\ wipe.at = "jobs" /\ UNCHANGED <<base, docs, graph, jobs, drop, late>>
        /\ wipe' = [wipe EXCEPT !.at = "graph", !.entities = {e.id : e \in entity}, !.rels = rel]
    BY <1>3 DEF WipeGraph
  <2>2. {e.id : e \in entity} \in SUBSET Nat /\ rel \in SUBSET AnyEdge
    BY GraphKnown DEF EntityRow, EdgeRow, AnyEdge
  <2>3. /\ wipe' \in WipeRow /\ wipe'.at = "graph" /\ wipe'.jobs = wipe.jobs /\ wipe'.chunks = wipe.chunks
        /\ wipe'.entities = {e.id : e \in entity} /\ wipe'.rels = rel
    BY <1>1, <2>1, <2>2 DEF WipeRow
  <2>4. \A j \in Job : JobKnown(j, job[j])'
    BY <1>1, <2>1, <2>3 DEF JobKnown, jobs
  <2> QED
    BY <1>1, <2>1, <2>3, <2>4, WipeMoves
<1>4. CASE WipeChunks
  <2>1. /\ wipe.at = "graph" /\ UNCHANGED <<base, docs, graph, jobs, drop, late>>
        /\ wipe' = [wipe EXCEPT !.at = "chunks", !.chunks = chunk] /\ \A d \in Doc : drop[d].chunks = {}
    BY <1>4 DEF WipeChunks
  <2>2. /\ wipe' \in WipeRow /\ wipe'.at = "chunks" /\ wipe'.jobs = wipe.jobs /\ wipe'.chunks = chunk
        /\ wipe'.entities = wipe.entities /\ wipe'.rels = wipe.rels
    BY <1>1, <2>1, GraphKnown DEF WipeRow
  <2>3. \A j \in Job : JobKnown(j, job[j])'
    BY <1>1, <2>1, <2>2 DEF JobKnown, jobs
  <2>4. /\ \A e \in entity : e.id \in wipe'.entities \/ late.jobs # {}
        /\ \A q \in rel : q \in wipe'.rels \/ q.job \in late.jobs
    BY <1>1, <2>1, <2>2 DEF FoundLate, Passed
  <2> QED
    BY <1>1, <2>1, <2>2, <2>3, <2>4, WipeMoves
<1>5. CASE WipeFails
  <2>1. wipe.at # "no" /\ wipe' = NoWipe /\ UNCHANGED <<base, docs, graph, jobs, drop, late>>
    BY <1>5 DEF WipeFails
  <2>2. ~Passed' /\ \A j \in Job : JobKnown(j, job[j])'
    BY <1>1, <2>1, NoWipeIs DEF Passed, JobKnown, jobs
  <2> QED
    BY <1>1, <2>1, <2>2, NoWipeIs, WipeMoves
<1> QED
  BY <1>2, <1>3, <1>4, <1>5

LEMMA CommitWipeKeeps ==
  ASSUME GraphInv, CommitWipe
  PROVE  GraphInv'
<1>1. /\ wipe.at = "chunks" /\ base' = FALSE /\ wipe' = NoWipe
      /\ doc' = [d \in Doc |-> IF Present(d) THEN DocDeleted ELSE doc[d]] /\ chunk' = chunk \ wipe.chunks
      /\ entity' = {e \in entity : e.id \notin wipe.entities} /\ rel' = rel \ wipe.rels
      /\ job' = [j \in Job |-> IF j \in wipe.jobs THEN NoJob ELSE job[j]]
      /\ UNCHANGED <<ocr, ids, task, drop, late>>
  BY DEF CommitWipe
<1>2. DocsGood'
  <2>1. DocDeleted \in DocRow /\ DocDeleted.status = "deleted"
    BY DEF DocDeleted, DocRow
  <2>2. ASSUME NEW d \in Doc PROVE DocGood(d)'
    <3>1. DocGood(d) /\ ChunksOf(d)' = ChunksOf(d) \ wipe.chunks /\ ~Present(d)'
      BY <1>1, <2>1, GraphKnown DEF ChunksOf, Present
    <3>2. doc'[d].status = "none" => doc[d].status = "none"
      BY <1>1, <2>1 DEF Present
    <3> QED
      BY <1>1, <3>1, <3>2, NoWipeIs DEF DocGood
  <2>3. chunk' \subseteq Spot /\ IsFiniteSet(chunk')
    BY <1>1, FS_Subset DEF GraphInv, DocsGood
  <2>4. doc' \in [Doc -> DocRow]
    BY <1>1, <2>1 DEF GraphInv, DocsGood
  <2> QED
    BY <1>1, <2>2, <2>3, <2>4, NoWipeIs DEF GraphInv, DocsGood
<1>3. FoundLate /\ Passed
  BY <1>1 DEF GraphInv, GraphGood, Passed
<1>4. GraphGood'
  <2>1. FoundLate'
    <3>1. ~Passed'
      BY <1>1, NoWipeIs DEF Passed
    <3>2. (entity' = {} \/ late.jobs # {}) /\ \A q \in rel' : q.job \in late.jobs
      BY <1>1, <1>3 DEF FoundLate
    <3> QED
      BY <1>1, <3>1, <3>2 DEF FoundLate
  <2>2. FoundOnce' /\ ShownWhole'
    BY <1>1 DEF GraphInv, GraphGood, FoundOnce, ShownWhole
  <2> QED
    BY <1>1, <2>1, <2>2 DEF GraphInv, GraphGood
<1>5. JobsGood'
  <2>1. \A j \in Job : JobFits(task'[j], job'[j])
    BY <1>1, NoJobIs DEF GraphInv, JobsGood, JobFits
  <2>2. \A j \in Job : JobKnown(j, job[j])'
    BY <1>1 DEF GraphInv, JobsGood, JobKnown
  <2>3. job' \in [Job -> JobRow]
    BY <1>1, NoJobIs DEF GraphInv, JobsGood
  <2> QED
    BY <1>1, <2>1, <2>2, <2>3 DEF GraphInv, JobsGood
<1> QED
  BY <1>2, <1>4, <1>5 DEF GraphInv


-----------------------------------------------------------------------------
(* The jobs.                                                                   *)

(* A task and a row change some of their fields.                               *)
LEMMA TaskTo ==
  ASSUME GraphInv, NEW j \in Job, NEW pc
  PROVE  [task EXCEPT ![j].pc = pc] = [task EXCEPT ![j] = [task[j] EXCEPT !.pc = pc]]
  BY DEF GraphInv, JobsGood

LEMMA TaskAsked ==
  ASSUME GraphInv, NEW j \in Job, NEW p
  PROVE  [task EXCEPT ![j].pc = "asked", ![j].proc = p]
         = [task EXCEPT ![j] = [task[j] EXCEPT !.pc = "asked", !.proc = p]]
  BY DEF GraphInv, JobsGood

LEMMA TaskLoaded ==
  ASSUME GraphInv, NEW j \in Job, NEW T, NEW N, NEW K
  PROVE  [task EXCEPT ![j].pc = "extract", ![j].todo = T, ![j].names = N, ![j].keys = K]
         = [task EXCEPT ![j] = [task[j] EXCEPT !.pc = "extract", !.todo = T, !.names = N, !.keys = K]]
  BY DEF GraphInv, JobsGood

LEMMA TaskRead ==
  ASSUME GraphInv, NEW j \in Job, NEW T, NEW N, NEW K, NEW n
  PROVE  [task EXCEPT ![j].todo = T, ![j].names = N, ![j].keys = K, ![j].failed = n]
         = [task EXCEPT ![j] = [task[j] EXCEPT !.todo = T, !.names = N, !.keys = K, !.failed = n]]
  BY DEF GraphInv, JobsGood

LEMMA RowTo ==
  ASSUME GraphInv, NEW j \in Job, NEW s
  PROVE  [job EXCEPT ![j].status = s] = [job EXCEPT ![j] = [job[j] EXCEPT !.status = s]]
  BY DEF GraphInv, JobsGood

LEMMA RowTotal ==
  ASSUME GraphInv, NEW j \in Job, NEW n
  PROVE  [job EXCEPT ![j].total = n] = [job EXCEPT ![j] = [job[j] EXCEPT !.total = n]]
  BY DEF GraphInv, JobsGood

LEMMA RowRead ==
  ASSUME GraphInv, NEW j \in Job, NEW n, NEW k
  PROVE  [job EXCEPT ![j].processed = n, ![j].entities_found = k]
         = [job EXCEPT ![j] = [job[j] EXCEPT !.processed = n, !.entities_found = k]]
  BY DEF GraphInv, JobsGood

LEMMA AskForJobKeeps ==
  ASSUME GraphInv, NEW j \in Job, NEW p \in Proc, AskForJob(j, p)
  PROVE  GraphInv'
<1>1. PICK w : w = [task[j] EXCEPT !.pc = "asked", !.proc = p]
  OBVIOUS
<1>2. /\ task[j].pc = "none" /\ task' = [task EXCEPT ![j] = w]
      /\ UNCHANGED <<base, docs, graph, deletions, late>> /\ job' = job
  BY <1>1, TaskAsked DEF AskForJob, TaskAt
<1>3. /\ w \in JobTask(ids) /\ w.pc = "asked" /\ w.proc = p /\ w.failed = task[j].failed
  BY <1>1, GraphKnown DEF JobTask
<1>4. job[j] \in JobRow /\ JobFits(task[j], job[j]) /\ JobKnown(j, job[j])'
      /\ late' \in [docs : SUBSET Doc, jobs : SUBSET Job]
  BY <1>2, GraphKnown DEF JobKnown, deletions
<1>5. JobFits(w, job[j])
  <2>1. p # NoProc
    BY GraphAssumption DEF NoProc
  <2>2. job[j] = NoJob /\ w.failed = 0 /\ w.pc = "asked" /\ w.proc # NoProc
    BY <1>2, <1>3, <1>4, <2>1 DEF JobFits
  <2> QED
    BY <2>2, NoJobIs DEF JobFits, Busy
<1>6. job' = [job EXCEPT ![j] = job[j]]
  BY <1>2 DEF GraphInv, JobsGood
<1>7. ~Busy(w)
  BY <1>3 DEF Busy
<1> QED
  BY <1>2, <1>3, <1>4, <1>5, <1>6, <1>7, OneJob

LEMMA CreateJobKeeps ==
  ASSUME GraphInv, NEW j \in Job, CreateJob(j)
  PROVE  GraphInv'
<1>1. PICK w : w = [task[j] EXCEPT !.pc = "begin"]
  OBVIOUS
<1>2. PICK x : x = [job[j] EXCEPT !.status = "pending"]
  OBVIOUS
<1>3. /\ task[j].pc = "asked" /\ task' = [task EXCEPT ![j] = w] /\ job' = [job EXCEPT ![j] = x]
      /\ UNCHANGED <<base, docs, graph, deletions>>
      /\ late' = IF wipe.at # "no" \/ ~base THEN [late EXCEPT !.jobs = @ \cup {j}] ELSE late
  BY <1>1, <1>2, TaskTo, RowTo DEF CreateJob, TaskAt
<1>4. /\ w \in JobTask(ids) /\ w.pc = "begin" /\ w.proc = task[j].proc /\ w.failed = task[j].failed
  BY <1>1, GraphKnown DEF JobTask
<1>5. /\ x \in JobRow /\ x.status = "pending" /\ x.processed = job[j].processed
  BY <1>2, GraphKnown DEF JobRow
<1>6. JobFits(w, x)
  BY <1>3, <1>4, <1>5, GraphKnown, NoJobIs DEF JobFits, Busy
<1>7. ~Busy(w)
  BY <1>4 DEF Busy
<1>8. /\ late' \in [docs : SUBSET Doc, jobs : SUBSET Job] /\ late'.docs = late.docs /\ late.jobs \subseteq late'.jobs
      /\ (base /\ wipe.at = "no") \/ j \in late'.jobs
  BY <1>3, GraphKnown
<1>9. JobKnown(j, x)'
  BY <1>3, <1>8 DEF JobKnown, deletions
<1> QED
  BY <1>3, <1>4, <1>5, <1>6, <1>7, <1>8, <1>9, OneJob

(* What a job that ends or dies leaves.                                        *)
LEMMA LeftIs ==
  ASSUME GraphInv, NEW j \in Job, NEW s \in {"over", "lost"}
  PROVE  /\ Left(j, s) \in JobTask(ids) /\ Left(j, s).pc = s /\ Left(j, s).proc = task[j].proc
         /\ Left(j, s).failed = task[j].failed
<1>1. task[j].proc \in Proc \cup {NoProc} /\ task[j].failed \in Nat /\ ids \in Nat
  BY GraphKnown DEF JobTask
<1>2. PICK z : z = [n \in EntityName |-> 0]
  OBVIOUS
<1>3. z \in [EntityName -> 0 .. ids]
  BY <1>1, <1>2
<1>4. PICK t : t = [pc |-> "none", proc |-> NoProc, todo |-> {}, names |-> z, keys |-> {}, failed |-> 0]
  OBVIOUS
<1>5. NoTask = t
  BY <1>2, <1>4, Zenon DEF NoTask
<1>6. t \in JobTask(ids)
  BY <1>3, <1>4 DEF JobTask
<1>7. PICK w : w = [t EXCEPT !.pc = s, !.proc = task[j].proc, !.failed = task[j].failed]
  OBVIOUS
<1>8. Left(j, s) = w
  BY <1>5, <1>7, Zenon DEF Left
<1>9. w \in JobTask(ids) /\ w.pc = s /\ w.proc = task[j].proc /\ w.failed = task[j].failed
  BY <1>1, <1>6, <1>7 DEF JobTask
<1> QED
  BY <1>8, <1>9

(* A job ends, unless its row is gone.                                         *)
LEMMA EndsWith ==
  ASSUME GraphInv, NEW j \in Job, NEW s \in {"done", "failed"}, Ended(j, s),
         UNCHANGED <<base, docs, graph, deletions, late>>, task[j].pc \in {"begin", "load", "read", "extract"},
         s = "done" => /\ ~RowGone(j) => job[j].processed = job[j].total
                       /\ job[j].total > 0 => task[j].failed < job[j].total
  PROVE  GraphInv'
<1>1. PICK w : w = Left(j, "over")
  OBVIOUS
<1>2. PICK x : x = [job[j] EXCEPT !.status = IF RowGone(j) THEN @ ELSE s]
  OBVIOUS
<1>3. /\ job[j] \in JobRow /\ JobFits(task[j], job[j]) /\ JobKnown(j, job[j])
      /\ late' \in [docs : SUBSET Doc, jobs : SUBSET Job]
  BY GraphKnown
<1>4. task' = [task EXCEPT ![j] = w] /\ job' = [job EXCEPT ![j] = x]
  BY <1>1, <1>2, RowTo DEF Ended
<1>5. /\ w \in JobTask(ids) /\ w.pc = "over" /\ w.proc = task[j].proc /\ w.failed = task[j].failed
  BY <1>1, LeftIs
<1>6. CASE RowGone(j)
  <2>1. x = NoJob
    BY <1>2, <1>3, <1>6 DEF RowGone, JobRow
  <2>2. JobFits(w, x) /\ ~Busy(w)
    BY <1>3, <1>5, <2>1, NoJobIs DEF JobFits, Busy
  <2>3. JobKnown(j, x)'
    BY <2>1 DEF JobKnown
  <2> QED
    BY <1>3, <1>4, <1>5, <2>1, <2>2, <2>3, NoJobIs, OneJob
<1>7. CASE ~RowGone(j)
  <2>1. x \in JobRow /\ x.status = s /\ x.processed = job[j].processed /\ x.total = job[j].total
    BY <1>2, <1>3, <1>7 DEF JobRow
  <2>2. JobFits(w, x) /\ ~Busy(w)
    BY <1>3, <1>5, <1>7, <2>1 DEF JobFits, Busy
  <2>3. JobKnown(j, x)'
    BY <1>3, <1>7 DEF JobKnown, RowGone, deletions
  <2> QED
    BY <1>3, <1>4, <1>5, <2>1, <2>2, <2>3, OneJob
<1> QED
  BY <1>6, <1>7

LEMMA RunKeeps ==
  ASSUME GraphInv, NEW j \in Job, RunExtractionJob(j)
  PROVE  GraphInv'
<1>1. CASE RowGone(j) \/ InRunningKbs(j)
  BY <1>1, EndsWith DEF RunExtractionJob, Going, TaskAt
<1>2. CASE ~RowGone(j) /\ ~InRunningKbs(j)
  <2>1. PICK w : w = [task[j] EXCEPT !.pc = "load"]
    OBVIOUS
  <2>2. PICK x : x = [job[j] EXCEPT !.status = "running"]
    OBVIOUS
  <2>3. /\ task[j].pc = "begin" /\ task' = [task EXCEPT ![j] = w] /\ job' = [job EXCEPT ![j] = x]
        /\ UNCHANGED <<base, docs, graph, deletions, late>>
    BY <1>2, <2>1, <2>2, TaskTo, RowTo DEF RunExtractionJob, Going, TaskAt
  <2>4. /\ w \in JobTask(ids) /\ w.pc = "load" /\ w.proc = task[j].proc /\ w.failed = task[j].failed
    BY <2>1, GraphKnown DEF JobTask
  <2>5. /\ x \in JobRow /\ x.status = "running" /\ x.processed = job[j].processed
    BY <2>2, GraphKnown DEF JobRow
  <2>6. JobFits(w, x)
    BY <2>3, <2>4, <2>5, GraphKnown DEF JobFits, Busy
  <2>7. \A k \in Job : k # j /\ Busy(task[k]) => task[k].proc # w.proc
    BY <1>2, <2>4 DEF InRunningKbs, Busy
  <2>8. JobKnown(j, x)' /\ late' \in [docs : SUBSET Doc, jobs : SUBSET Job]
    BY <1>2, <2>3, GraphKnown DEF RowGone, JobKnown, deletions
  <2> QED
    BY <2>3, <2>4, <2>5, <2>6, <2>7, <2>8, OneJob
<1> QED
  BY <1>1, <1>2

LEMMA CannotRunKeeps ==
  ASSUME GraphInv, NEW j \in Job, CannotRun(j) \/ FlushFails(j)
  PROVE  GraphInv'
  BY EndsWith DEF CannotRun, FlushFails, Going, TaskAt

LEMMA FindBaseKeeps ==
  ASSUME GraphInv, NEW j \in Job, FindBase(j)
  PROVE  GraphInv'
<1>1. PICK w : w = [task[j] EXCEPT !.pc = "read"]
  OBVIOUS
<1>2. /\ task[j].pc = "load" /\ task' = [task EXCEPT ![j] = w] /\ UNCHANGED <<base, docs, graph, deletions, late>>
      /\ job' = job
  BY <1>1, TaskTo DEF FindBase, Going, TaskAt
<1>3. w \in JobTask(ids) /\ w.pc = "read" /\ w.proc = task[j].proc /\ w.failed = task[j].failed
  BY <1>1, GraphKnown DEF JobTask
<1>4. job[j] \in JobRow /\ JobFits(task[j], job[j]) /\ JobKnown(j, job[j])'
      /\ late' \in [docs : SUBSET Doc, jobs : SUBSET Job] /\ job' = [job EXCEPT ![j] = job[j]]
  BY <1>2, GraphKnown DEF JobKnown, deletions, GraphInv, JobsGood
<1>5. JobFits(w, job[j])
  BY <1>2, <1>3, <1>4 DEF JobFits, Busy
<1>6. \A k \in Job : k # j /\ Busy(task[k]) => task[k].proc # w.proc
  BY <1>2, <1>3 DEF GraphInv, JobsGood, Busy
<1> QED
  BY <1>2, <1>3, <1>4, <1>5, <1>6, OneJob

LEMMA JobEndsKeeps ==
  ASSUME GraphInv, NEW j \in Job, JobEnds(j)
  PROVE  GraphInv'
<1>1. /\ task[j].pc = "extract" /\ task[j].todo = {} /\ UNCHANGED <<base, docs, graph, deletions, late>>
      /\ \/ Ended(j, "failed")
         \/ Ended(j, "done") /\ ~(job[j].total > 0 /\ task[j].failed = job[j].total)
  BY DEF JobEnds, Going, TaskAt
<1>2. /\ job[j] \in JobRow /\ task[j] \in JobTask(ids)
      /\ job[j] # NoJob => task[j].failed <= job[j].processed /\ job[j].processed + Cardinality({}) = job[j].total
  BY <1>1, GraphKnown DEF JobFits
<1>3. CASE Ended(j, "failed")
  BY <1>1, <1>3, EndsWith
<1>4. CASE Ended(j, "done") /\ ~(job[j].total > 0 /\ task[j].failed = job[j].total)
  <2>1. job[j].total \in Nat /\ job[j].processed \in Nat /\ task[j].failed \in Nat
    BY <1>2 DEF JobRow, JobTask
  <2>2. ~RowGone(j) => job[j].processed = job[j].total /\ (job[j].total > 0 => task[j].failed < job[j].total)
    BY <1>2, <1>4, <2>1, FS_EmptySet DEF RowGone
  <2>3. RowGone(j) => job[j].total = 0
    BY DEF RowGone, NoJob
  <2> QED
    BY <1>1, <1>4, <2>1, <2>2, <2>3, EndsWith
<1> QED
  BY <1>1, <1>3, <1>4

LEMMA LoadJobKeeps ==
  ASSUME GraphInv, NEW j \in Job, LoadJob(j)
  PROVE  GraphInv'
<1> DEFINE N == [n \in EntityName |->
                IF \E e \in entity : e.name_norm = n
                THEN (CHOOSE e \in entity : e.name_norm = n).id ELSE 0]
           K == {<<r.s, r.t>> : r \in rel}
<1>1. PICK w : w = [task[j] EXCEPT !.pc = "extract", !.todo = chunk, !.names = N, !.keys = K]
  OBVIOUS
<1>2. PICK x : x = [job[j] EXCEPT !.total = Cardinality(chunk)]
  OBVIOUS
<1>3. /\ N \in [EntityName -> 0 .. ids] /\ K \in SUBSET (Nat \X Nat)
  <2>1. ids \in Nat /\ (\A e \in entity : e.id \in 0 .. ids) /\ \A r \in rel : r.s \in Nat /\ r.t \in Nat
    BY GraphKnown DEF EntityRow, EdgeRow
  <2>2. \A n \in EntityName : (\E e \in entity : e.name_norm = n) => (CHOOSE e \in entity : e.name_norm = n) \in entity
    OBVIOUS
  <2> QED
    BY <2>1, <2>2
<1>4. /\ task[j].pc = "read" /\ ~RowGone(j) /\ UNCHANGED <<base, docs, graph, deletions, late>>
      /\ task' = [task EXCEPT ![j].pc = "extract", ![j].todo = chunk, ![j].names = N, ![j].keys = K]
      /\ job' = [job EXCEPT ![j].total = Cardinality(chunk)]
  BY DEF LoadJob, Going, TaskAt
<1>5. \A q \in rel : <<q.s, q.t>> \in K
  OBVIOUS
<1> HIDE DEF N, K
<1>6. task' = [task EXCEPT ![j] = w] /\ job' = [job EXCEPT ![j] = x]
  BY <1>1, <1>2, <1>4, TaskLoaded, RowTotal
<1>7. IsFiniteSet(chunk) /\ chunk \subseteq Spot /\ Cardinality(chunk) \in Nat
  BY GraphKnown, FS_CardinalityType
<1>8. /\ w \in JobTask(ids) /\ w.pc = "extract" /\ w.proc = task[j].proc /\ w.failed = task[j].failed /\ w.todo = chunk
      /\ w.keys = K
  BY <1>1, <1>3, <1>7, GraphKnown DEF JobTask
<1>9. /\ x \in JobRow /\ x.status = job[j].status /\ x.processed = job[j].processed /\ x.total = Cardinality(chunk)
  BY <1>2, <1>7, GraphKnown DEF JobRow
<1>10. JobFits(task[j], job[j]) /\ JobKnown(j, x)' /\ late' \in [docs : SUBSET Doc, jobs : SUBSET Job]
  BY <1>4, GraphKnown DEF RowGone, JobKnown, deletions
<1>11. JobFits(w, x)
  BY <1>4, <1>7, <1>8, <1>9, <1>10 DEF JobFits, Busy, RowGone
<1>12. \A k \in Job : k # j /\ Busy(task[k]) => task[k].proc # w.proc
  BY <1>4, <1>8 DEF GraphInv, JobsGood, Busy
<1> QED
  BY <1>4, <1>5, <1>6, <1>8, <1>9, <1>10, <1>11, <1>12, OneJob


(* What a chunk brings: new names in the order of the answer, edges that the   *)
(* job had not found.                                                          *)
LEMMA UpsertKeeps ==
  ASSUME GraphInv, NEW j \in Job, task[j].pc = "extract", ~RowGone(j), j \notin wipe.jobs,
         UNCHANGED <<base, docs, deletions, late>>,
         NEW c \in task[j].todo, NEW a \in Answers, NEW f \in Numberings(j, a), Upsert(j, c, a, f)
  PROVE  GraphInv'
<1> DEFINE names == Named(j, f)
           edges == {k \in Edges(names, a) \ task[j].keys : 0 \notin {k[1], k[2]} /\ k[1] # k[2]}
           n == Cardinality(New(j, a))
           fresh == {[id |-> f[m], name_norm |-> m, status |-> "pending", source |-> {c}] : m \in DOMAIN f}
           found == {[s |-> k[1], t |-> k[2], status |-> "pending", source |-> {c}, job |-> j] : k \in edges}
<1>1. /\ entity' = entity \cup fresh /\ rel' = rel \cup found /\ ids' = ids + Cardinality(DOMAIN f)
      /\ task' = [task EXCEPT ![j].todo = @ \ {c}, ![j].names = names, ![j].keys = @ \cup edges,
                              ![j].failed = IF a.ok THEN @ ELSE @ + 1]
      /\ job' = [job EXCEPT ![j].processed = @ + 1,
                            ![j].entities_found = IF a.ok THEN @ + Cardinality(DOMAIN f) ELSE @]
  BY DEF Upsert
<1>2. /\ ids \in Nat /\ task[j] \in JobTask(ids) /\ job[j] \in JobRow /\ JobFits(task[j], job[j]) /\ job[j] # NoJob
      /\ c \in Spot /\ IsFiniteSet(task[j].todo) /\ task[j].todo \subseteq Spot
      /\ task[j].names \in [EntityName -> 0 .. ids] /\ task[j].keys \subseteq Nat \X Nat
      /\ job[j].processed \in Nat /\ task[j].failed \in Nat /\ job[j].entities_found \in Nat
  BY GraphKnown DEF JobFits, JobTask, JobRow, RowGone
<1>3. a.names \subseteq EntityName /\ a.pairs \subseteq EntityName \X EntityName /\ a.ok \in BOOLEAN
  BY DEF Answers, Pair
<1>4. New(j, a) \subseteq EntityName /\ IsFiniteSet(New(j, a)) /\ n \in Nat
  BY <1>3, GraphAssumption, FS_Subset, FS_CardinalityType DEF New
<1>5. f \in [New(j, a) -> ids + 1 .. ids + n] /\ DOMAIN f = New(j, a)
  BY DEF Numberings, Bijection, Injection
<1>6. ids' = ids + n /\ ids' \in Nat /\ 0 .. ids \subseteq 0 .. ids' /\ 1 .. ids \subseteq 1 .. ids'
  <2>1. Cardinality(DOMAIN f) = n
    BY <1>5
  <2>2. ids' = ids + n
    BY <1>1, <2>1
  <2> HIDE DEF n
  <2> QED
    BY <1>2, <1>4, <2>2
<1>7. names \in [EntityName -> 0 .. ids']
  <2>1. \A m \in EntityName : names[m] \in 0 .. ids'
    BY <1>2, <1>4, <1>5, <1>6 DEF Named
  <2> QED
    BY <2>1 DEF Named
<1>8. \A k \in edges : /\ k = <<k[1], k[2]>> /\ k[1] \in 1 .. ids' /\ k[2] \in 1 .. ids' /\ k \notin task[j].keys
  <2> TAKE k \in edges
  <2>1. PICK p \in a.pairs : k = <<names[p[1]], names[p[2]]>>
    BY DEF Edges
  <2>2. p[1] \in EntityName /\ p[2] \in EntityName
    BY <1>3
  <2>3. k[1] \in 0 .. ids' /\ k[2] \in 0 .. ids' /\ k[1] # 0 /\ k[2] # 0 /\ k \notin task[j].keys
    BY <1>7, <2>1, <2>2
  <2> QED
    BY <1>6, <2>1, <2>3
<1>9. edges \subseteq Nat \X Nat
  BY <1>6, <1>8
<1>10. \A e \in fresh : e \in EntityRow(ids') /\ e.id > ids /\ e.status = "pending"
  <2> TAKE e \in fresh
  <2>1. PICK m \in DOMAIN f : e = [id |-> f[m], name_norm |-> m, status |-> "pending", source |-> {c}]
    OBVIOUS
  <2>2. f[m] \in 1 .. ids' /\ f[m] > ids /\ m \in EntityName /\ {c} \in SUBSET Spot
    <3>1. m \in EntityName /\ f[m] \in ids + 1 .. ids + n
      BY <1>4, <1>5
    <3> HIDE DEF n
    <3> QED
      BY <1>2, <1>4, <1>6, <3>1
  <2> QED
    BY <2>1, <2>2 DEF EntityRow
<1>11. \A r \in found : /\ r \in EdgeRow(ids') /\ r.status = "pending" /\ r.job = j /\ <<r.s, r.t>> \in edges
  <2> TAKE r \in found
  <2>1. PICK k \in edges : r = [s |-> k[1], t |-> k[2], status |-> "pending", source |-> {c}, job |-> j]
    OBVIOUS
  <2>2. k[1] \in 1 .. ids' /\ k[2] \in 1 .. ids' /\ {c} \in SUBSET Spot /\ <<k[1], k[2]>> = k
    BY <1>2, <1>8
  <2> QED
    BY <2>1, <2>2 DEF EdgeRow
<1>12. \A r \in found, q \in found : r.s = q.s /\ r.t = q.t => r = q
  OBVIOUS
<1> HIDE DEF names, edges, fresh, found, n
<1>13. PICK bad : bad = IF a.ok THEN task[j].failed ELSE task[j].failed + 1
  OBVIOUS
<1>14. PICK total : total = IF a.ok THEN job[j].entities_found + Cardinality(DOMAIN f) ELSE job[j].entities_found
  OBVIOUS
<1>27. bad \in Nat /\ bad <= task[j].failed + 1 /\ total \in Nat
  BY <1>2, <1>3, <1>4, <1>5, <1>13, <1>14 DEF n
<1>28. PICK w : w = [task[j] EXCEPT !.todo = task[j].todo \ {c}, !.names = names, !.keys = task[j].keys \cup edges,
                                    !.failed = bad]
  OBVIOUS
<1>29. PICK x : x = [job[j] EXCEPT !.processed = job[j].processed + 1, !.entities_found = total]
  OBVIOUS
<1>15. task' = [task EXCEPT ![j] = w]
  <2>1. task' = [task EXCEPT ![j].todo = task[j].todo \ {c}, ![j].names = names, ![j].keys = task[j].keys \cup edges,
                              ![j].failed = bad]
    BY <1>1, <1>13
  <2> QED
    BY <1>28, <2>1, TaskRead
<1>16. job' = [job EXCEPT ![j] = x]
  <2>1. job' = [job EXCEPT ![j].processed = job[j].processed + 1, ![j].entities_found = total]
    BY <1>1, <1>14
  <2> QED
    BY <1>29, <2>1, RowRead
<1>17. /\ w \in JobTask(ids') /\ w.pc = "extract" /\ w.proc = task[j].proc /\ w.todo = task[j].todo \ {c}
       /\ w.keys = task[j].keys \cup edges /\ w.failed <= task[j].failed + 1 /\ w.failed \in Nat
  <2>1. task[j].todo \ {c} \in SUBSET Spot /\ task[j].keys \cup edges \in SUBSET (Nat \X Nat)
    BY <1>2, <1>9
  <2>2. PICK T \in SUBSET Spot, K \in SUBSET (Nat \X Nat) : T = task[j].todo \ {c} /\ K = task[j].keys \cup edges
    BY <2>1
  <2>3. w = [task[j] EXCEPT !.todo = T, !.names = names, !.keys = K, !.failed = bad]
    BY <1>28, <2>2
  <2>4. PICK m : m = ids'
    OBVIOUS
  <2>5. names \in [EntityName -> 0 .. m]
    BY <1>7, <2>4
  <2>6. task[j] \in JobTask(ids) /\ task[j].pc = "extract"
    BY <1>2
  <2>7. bad \in Nat
    BY <1>27
  <2>8. /\ w \in JobTask(m) /\ w.pc = "extract" /\ w.proc = task[j].proc /\ w.todo = T /\ w.keys = K /\ w.failed = bad
    BY ONLY <2>2, <2>3, <2>5, <2>6, <2>7 DEF JobTask
  <2> QED
    BY <1>27, <2>2, <2>4, <2>8
<1>18. /\ x \in JobRow /\ x.status = job[j].status /\ x.processed = job[j].processed + 1 /\ x.total = job[j].total
  <2>1. PICK k \in Nat : k = job[j].processed + 1
    BY <1>2
  <2>2. x = [job[j] EXCEPT !.processed = k, !.entities_found = total]
    BY <1>29, <2>1
  <2>3. job[j] \in JobRow /\ total \in Nat
    BY <1>2, <1>27
  <2>4. x \in JobRow /\ x.status = job[j].status /\ x.processed = k /\ x.total = job[j].total
    BY ONLY <2>1, <2>2, <2>3 DEF JobRow
  <2> QED
    BY <2>1, <2>4
<1>19. JobFits(w, x)
  <2>1. IsFiniteSet(w.todo) /\ Cardinality(w.todo) = Cardinality(task[j].todo) - 1 /\ Cardinality(task[j].todo) \in Nat
    BY <1>2, <1>17, FS_RemoveElement, FS_CardinalityType
  <2>2. /\ task[j].failed <= job[j].processed /\ job[j].processed + Cardinality(task[j].todo) = job[j].total
        /\ job[j].status = "running"
    BY <1>2 DEF JobFits, Busy
  <2>3. w.failed <= x.processed /\ x.processed + Cardinality(w.todo) = x.total
    BY <1>2, <1>17, <1>18, <2>1, <2>2
  <2>4. w.proc # NoProc
    BY <1>2, <1>17 DEF JobFits
  <2> QED
    BY <1>17, <1>18, <2>1, <2>2, <2>3, <2>4 DEF JobFits, Busy
<1>20. /\ task' \in [Job -> JobTask(ids')] /\ job' \in [Job -> JobRow] /\ task'[j] = w /\ job'[j] = x
       /\ \A k \in Job : k # j => task'[k] = task[k] /\ job'[k] = job[k]
       /\ \A k \in Job : task'[k].proc = task[k].proc /\ task'[k].pc = task[k].pc
  <2>1. \A k \in Job : task[k] \in JobTask(ids')
    BY <1>6, GraphKnown DEF JobTask
  <2>2. task \in [Job -> JobTask(ids')] /\ job \in [Job -> JobRow]
    BY <2>1 DEF GraphInv, JobsGood
  <2> QED
    BY <1>15, <1>16, <1>17, <1>18, <2>2
<1>21. \A q \in rel : q \in EdgeRow(ids') /\ q.job \in Job /\ q.s <= ids /\ q.t <= ids
  BY <1>2, <1>6, GraphKnown DEF EdgeRow
<1>22. \A q \in rel : task[q.job].proc = task[j].proc => <<q.s, q.t>> \in task[j].keys
  BY DEF GraphInv, JobsGood
<1>23. (base /\ wipe.at = "no") \/ j \in late.jobs
  BY <1>2, GraphKnown DEF JobKnown
<1>24. DocsGood'
  BY GraphKnown, LateDocsStay
<1>25. GraphGood'
  <2>1. entity' \subseteq EntityRow(ids') /\ rel' \subseteq EdgeRow(ids')
    <3>1. \A e \in entity : e \in EntityRow(ids')
      BY <1>6, GraphKnown DEF EntityRow
    <3> QED
      BY <1>1, <1>10, <1>11, <1>21, <3>1
  <2>2. FoundOnce'
    <3> SUFFICES ASSUME NEW r \in rel', NEW q \in rel', r.s = q.s, r.t = q.t, task'[r.job].proc = task'[q.job].proc
                 PROVE  r = q
      BY DEF FoundOnce
    <3>0. r.job \in Job /\ q.job \in Job /\ task[r.job].proc = task[q.job].proc
      <4>1. \A o \in rel' : o.job \in Job
        BY <1>1, <1>11, <1>21
      <4> QED
        BY <1>20, <4>1
    <3>1. CASE r \in rel /\ q \in rel
      BY <3>0, <3>1 DEF GraphInv, GraphGood, FoundOnce
    <3>2. CASE r \in found /\ q \in found
      BY <1>12, <3>2
    <3>3. ASSUME NEW g \in found, NEW o \in rel, g.s = o.s, g.t = o.t, task[g.job].proc = task[o.job].proc
          PROVE  FALSE
      <4>1. g.job = j /\ <<g.s, g.t>> \in edges
        BY <1>11
      <4>2. <<o.s, o.t>> \in task[j].keys
        BY <1>22, <3>3, <4>1
      <4>3. <<g.s, g.t>> \in task[j].keys
        BY <3>3, <4>2
      <4> QED
        BY <1>8, <4>1, <4>3
    <3> QED
      BY <1>1, <3>0, <3>1, <3>2, <3>3
  <2>3. ShownWhole'
    <3> SUFFICES ASSUME NEW r \in rel', NEW e \in entity', r.status = "approved", e.id \in {r.s, r.t}
                 PROVE  e.status = "approved"
      BY DEF ShownWhole
    <3>1. r \in rel
      BY <1>1, <1>11
    <3>2. e \in entity
      BY <1>1, <1>2, <1>6, <1>10, <1>21, <2>1, <3>1 DEF EntityRow
    <3> QED
      BY <3>1, <3>2 DEF GraphInv, GraphGood, ShownWhole
  <2>4. FoundLate'
    <3>1. FoundLate /\ wipe' = wipe
      BY DEF GraphInv, GraphGood, deletions
    <3>2. CASE j \in late.jobs
      BY <1>1, <1>11, <3>1, <3>2 DEF FoundLate, Passed
    <3>3. CASE base /\ wipe.at = "no"
      BY <3>1, <3>3 DEF FoundLate, Passed
    <3> QED
      BY <1>23, <3>2, <3>3
  <2> QED
    BY <1>6, <2>1, <2>2, <2>3, <2>4 DEF GraphGood
<1>26. JobsGood'
  <2>1. \A k \in Job : JobFits(task'[k], job'[k])
    BY <1>19, <1>20 DEF GraphInv, JobsGood
  <2>7. \A k \in Job : JobKnown(k, job[k])'
    <3> TAKE k \in Job
    <3>1. JobKnown(k, job[k]) /\ wipe' = wipe /\ (k # j => job'[k] = job[k])
      BY <1>20, GraphKnown DEF deletions
    <3> QED
      BY <1>23, <3>1 DEF JobKnown
  <2>2. \A k, l \in Job : Busy(task'[k]) /\ Busy(task'[l]) /\ task'[k].proc = task'[l].proc => k = l
    BY <1>20 DEF GraphInv, JobsGood, Busy
  <2>0. \A q \in rel' : q \in rel \/ (q \in found /\ q.job = j)
    BY <1>1, <1>11
  <2>5. \A q \in rel' : q.job \in Job
    BY <1>21, <2>0
  <2>6. task[j].pc # "none" /\ \A q \in rel : task[q.job].pc # "none"
    BY <1>2 DEF GraphInv, JobsGood
  <2>3. \A r \in rel' : task'[r.job].pc # "none"
    BY <1>20, <2>0, <2>5, <2>6
  <2>4. \A k \in Job : task'[k].pc = "extract" =>
          \A q \in rel' : task'[q.job].proc = task'[k].proc => <<q.s, q.t>> \in task'[k].keys
    <3> SUFFICES ASSUME NEW k \in Job, task[k].pc = "extract", NEW q \in rel', q.job \in Job,
                        task[q.job].proc = task[k].proc
                 PROVE  <<q.s, q.t>> \in task'[k].keys
      BY <1>20, <2>5
    <3>1. CASE q \in rel
      <4>1. <<q.s, q.t>> \in task[k].keys
        BY <3>1 DEF GraphInv, JobsGood
      <4> QED
        BY <1>17, <1>20, <4>1
    <3>2. CASE q \in found
      <4>1. q.job = j /\ <<q.s, q.t>> \in edges
        BY <1>11, <3>2
      <4>2. k = j
        BY <4>1 DEF GraphInv, JobsGood, Busy
      <4> QED
        BY <1>17, <1>20, <4>1, <4>2
    <3> QED
      BY <1>1, <3>1, <3>2
  <2> QED
    BY <1>20, <2>1, <2>2, <2>3, <2>4, <2>7 DEF JobsGood
<1> QED
  BY <1>24, <1>25, <1>26 DEF GraphInv

LEMMA ExtractChunkKeeps ==
  ASSUME GraphInv, NEW j \in Job, ExtractChunk(j)
  PROVE  GraphInv'
<1>1. task[j].pc = "extract" /\ ~RowGone(j) /\ j \notin wipe.jobs /\ UNCHANGED <<base, docs, deletions, late>>
  BY DEF ExtractChunk, Going, TaskAt
<1>2. PICK c \in task[j].todo, a \in Answers : \E f \in Numberings(j, a) : Upsert(j, c, a, f)
  BY DEF ExtractChunk
<1>3. PICK f \in Numberings(j, a) : Upsert(j, c, a, f)
  BY <1>2
<1> QED
  BY <1>1, <1>3, UpsertKeeps

LEMMA ProcessDiesKeeps ==
  ASSUME GraphInv, NEW p \in Proc, ProcessDies(p)
  PROVE  GraphInv'
<1>1. /\ task' = [j \in Job |-> IF task[j].proc = p /\ ~TaskAt(j, "over") THEN Left(j, "lost")
                                ELSE task[j]]
      /\ ocr' = [d \in Doc |-> IF ocr[d] = p THEN NoProc ELSE ocr[d]]
      /\ UNCHANGED <<base, doc, chunk, graph, job, deletions, late>>
  BY DEF ProcessDies
<1>2. ASSUME NEW j \in Job
      PROVE  /\ task'[j] \in JobTask(ids) /\ task'[j].proc = task[j].proc
             /\ task'[j] = task[j] \/ (task'[j].pc = "lost" /\ task[j].pc # "none")
             /\ JobFits(task'[j], job[j])
  <2>1. task[j] \in JobTask(ids) /\ JobFits(task[j], job[j]) /\ job[j] \in JobRow
    BY GraphKnown
  <2>2. CASE task[j].proc = p /\ ~TaskAt(j, "over")
    <3>1. PICK w : w = Left(j, "lost")
      OBVIOUS
    <3>2. w \in JobTask(ids) /\ w.pc = "lost" /\ w.proc = p
      BY <2>2, <3>1, LeftIs
    <3>3. task'[j] = w
      BY <1>1, <2>2, <3>1
    <3>4. p # NoProc /\ task[j].pc # "over"
      BY <2>2, GraphAssumption DEF NoProc, TaskAt
    <3>5. task[j].pc # "none" /\ JobFits(w, job[j])
      BY <2>1, <2>2, <3>2, <3>4 DEF JobFits, Busy
    <3> QED
      BY <2>2, <3>2, <3>3, <3>5
  <2>3. CASE ~(task[j].proc = p /\ ~TaskAt(j, "over"))
    BY <1>1, <2>1, <2>3
  <2> QED
    BY <2>2, <2>3
<1>3. DocsGood'
  <2>1. ocr' \in [Doc -> Proc \cup {NoProc}] /\ \A d \in Doc : ocr'[d] \in {ocr[d], NoProc}
    BY <1>1 DEF GraphInv, DocsGood
  <2>2. \A d \in Doc : DocGood(d)'
    <3> TAKE d \in Doc
    <3>1. DocGood(d) /\ ChunksOf(d)' = ChunksOf(d) /\ (Present(d)' <=> Present(d)) /\ ocr'[d] \in {ocr[d], NoProc}
      BY <1>1, <2>1, GraphKnown DEF ChunksOf, Present
    <3> QED
      BY <1>1, <3>1 DEF DocGood, deletions
  <2> QED
    BY <1>1, <2>1, <2>2 DEF GraphInv, DocsGood, deletions
<1>4. \A q \in rel : q.job \in Job
  BY GraphKnown DEF EdgeRow
<1>5. GraphGood'
  <2>1. FoundLate'
    BY <1>1 DEF GraphInv, GraphGood, FoundLate, Passed, graph, deletions
  <2> QED
    BY <1>1, <1>2, <1>4, <2>1 DEF GraphInv, GraphGood, FoundOnce, ShownWhole, graph
<1>6. JobsGood'
  <2>1. \A j \in Job : JobFits(task'[j], job'[j]) /\ JobKnown(j, job[j])'
    BY <1>1, <1>2, GraphKnown DEF JobKnown, deletions
  <2>2. \A j, k \in Job : Busy(task'[j]) /\ Busy(task'[k]) /\ task'[j].proc = task'[k].proc => j = k
    BY <1>2 DEF GraphInv, JobsGood, Busy
  <2>3. \A r \in rel : task'[r.job].pc # "none"
    BY <1>2, <1>4 DEF GraphInv, JobsGood
  <2>4. \A j \in Job : task'[j].pc = "extract" =>
          \A q \in rel : task'[q.job].proc = task'[j].proc => <<q.s, q.t>> \in task'[j].keys
    BY <1>2, <1>4 DEF GraphInv, JobsGood
  <2>5. task' \in [Job -> JobTask(ids)]
    BY <1>1, <1>2
  <2> QED
    BY <1>1, <2>1, <2>2, <2>3, <2>4, <2>5 DEF GraphInv, JobsGood, graph
<1> QED
  BY <1>3, <1>5, <1>6 DEF GraphInv


-----------------------------------------------------------------------------
(* The review.                                                                 *)

LEMMA DocsStay ==
  ASSUME GraphInv, UNCHANGED <<base, docs, deletions, late>>
  PROVE  DocsGood' /\ wipe' = wipe
  BY LateDocsStay, GraphKnown DEF deletions

(* One entity becomes another with its id.                                     *)
LEMMA EntityTo ==
  ASSUME GraphInv, UNCHANGED <<base, docs, rel, ids, jobs, deletions, late>>, NEW e \in entity, NEW y \in EntityRow(ids), y.id = e.id,
         entity' = (entity \ {e}) \cup {y}, y.status = "approved" \/ y.status = e.status
  PROVE  GraphInv'
<1> DEFINE g == [q \in rel |-> q]
<1>1. \A q \in rel : g[q] \in EdgeRow(ids) /\ g[q].s = q.s /\ g[q].t = q.t /\ g[q].job = q.job
  BY GraphKnown
<1>2. \A x \in rel' : \E q \in rel : x = g[q]
  OBVIOUS
<1>3. entity' \subseteq EntityRow(ids) /\ \A x \in entity' : \E o \in entity : x.id = o.id
  BY GraphKnown
<1>4. ShownWhole'
  BY DEF GraphInv, GraphGood, ShownWhole
<1>9. \A q \in rel \cap wipe.rels : g[q] = q
  OBVIOUS
<1> HIDE DEF g
<1> QED
  BY <1>9, <1>1, <1>2, <1>3, <1>4, DocsStay, Found

LEMMA EntityKeeps ==
  ASSUME GraphInv, NEW e \in entity, (\E n \in EntityName : RenameEntity(e, n)) \/ ApproveEntity(e)
  PROVE  GraphInv'
<1>1. e \in EntityRow(ids)
  BY GraphKnown
<1>2. ASSUME NEW n \in EntityName, RenameEntity(e, n) PROVE GraphInv'
  <2>1. PICK y : y = [e EXCEPT !.name_norm = n]
    OBVIOUS
  <2>2. y \in EntityRow(ids) /\ y.id = e.id /\ y.status = e.status
    BY <1>1, <2>1 DEF EntityRow
  <2>3. entity' = (entity \ {e}) \cup {y} /\ UNCHANGED <<base, docs, rel, ids, jobs, deletions, late>>
    BY <1>2, <2>1 DEF RenameEntity
  <2> QED
    BY <2>2, <2>3, EntityTo
<1>3. CASE ApproveEntity(e)
  <2>1. PICK y : y = [e EXCEPT !.status = "approved"]
    OBVIOUS
  <2>2. y \in EntityRow(ids) /\ y.id = e.id /\ y.status = "approved"
    BY <1>1, <2>1 DEF EntityRow
  <2>3. entity' = (entity \ {e}) \cup {y} /\ UNCHANGED <<base, docs, rel, ids, jobs, deletions, late>>
    BY <1>3, <2>1 DEF ApproveEntity
  <2> QED
    BY <2>2, <2>3, EntityTo
<1> QED
  BY <1>2, <1>3

LEMMA DeletionsKeep ==
  ASSUME GraphInv, (\E e \in entity : DeleteEntity(e)) \/ (\E r \in rel : DeleteRelationship(r))
  PROVE  GraphInv'
<1> DEFINE g == [q \in rel |-> q]
<1>1. entity' \subseteq entity /\ rel' \subseteq rel /\ UNCHANGED <<base, docs, ids, jobs, deletions, late>>
  BY DEF DeleteEntity, DeleteRelationship
<1>2. \A q \in rel : g[q] \in EdgeRow(ids) /\ g[q].s = q.s /\ g[q].t = q.t /\ g[q].job = q.job
  BY GraphKnown
<1>3. \A x \in rel' : \E q \in rel : x = g[q]
  BY <1>1
<1>4. entity' \subseteq EntityRow(ids) /\ \A x \in entity' : \E o \in entity : x.id = o.id
  BY <1>1, GraphKnown
<1>5. ShownWhole'
  BY <1>1 DEF GraphInv, GraphGood, ShownWhole
<1>9. \A q \in rel \cap wipe.rels : g[q] = q
  OBVIOUS
<1> HIDE DEF g
<1> QED
  BY <1>9, <1>1, <1>2, <1>3, <1>4, <1>5, DocsStay, Found

LEMMA ApproveRelationshipKeeps ==
  ASSUME GraphInv, NEW r \in rel, ApproveRelationship(r)
  PROVE  GraphInv'
<1>1. PICK y : y = [r EXCEPT !.status = "approved"]
  OBVIOUS
<1> DEFINE g == [q \in rel |-> IF q = r THEN y ELSE q]
           Shown(e) == [e EXCEPT !.status = IF e.id \in {r.s, r.t} THEN "approved" ELSE @]
<1>2. y \in EdgeRow(ids) /\ y.s = r.s /\ y.t = r.t /\ y.job = r.job
  BY <1>1, GraphKnown DEF EdgeRow
<1>3. r \notin wipe.rels /\ rel' = (rel \ {r}) \cup {y} /\ entity' = {Shown(e) : e \in entity} /\ UNCHANGED <<base, docs, ids, jobs, deletions, late>>
  BY <1>1 DEF ApproveRelationship, WithEnds
<1>4. \A q \in rel : g[q] \in EdgeRow(ids) /\ g[q].s = q.s /\ g[q].t = q.t /\ g[q].job = q.job
  BY <1>2, GraphKnown
<1>9. \A q \in rel \cap wipe.rels : g[q] = q
  BY <1>3
<1>5. \A x \in rel' : \E q \in rel : x = g[q]
  BY <1>3
<1>6. ASSUME NEW e \in entity
      PROVE  /\ Shown(e) \in EntityRow(ids) /\ Shown(e).id = e.id
             /\ Shown(e).status = IF e.id \in {r.s, r.t} THEN "approved" ELSE e.status
  <2>1. e \in EntityRow(ids)
    BY GraphKnown
  <2> QED
    BY <2>1 DEF EntityRow
<1> HIDE DEF Shown
<1>7. entity' \subseteq EntityRow(ids) /\ \A x \in entity' : \E o \in entity : x.id = o.id
  BY <1>3, <1>6
<1>8. ShownWhole'
  <2> SUFFICES ASSUME NEW x \in rel', NEW z \in entity', x.status = "approved", z.id \in {x.s, x.t}
               PROVE  z.status = "approved"
    BY DEF ShownWhole
  <2>1. PICK e \in entity : z = Shown(e)
    BY <1>3
  <2>2. CASE x = y
    BY <1>2, <1>6, <2>1, <2>2
  <2>3. CASE x \in rel
    <3>1. e.status = "approved"
      BY <1>6, <2>1, <2>3 DEF GraphInv, GraphGood, ShownWhole
    <3> QED
      BY <1>6, <2>1, <3>1
  <2> QED
    BY <1>3, <2>2, <2>3
<1> HIDE DEF g
<1> QED
  BY <1>3, <1>4, <1>5, <1>7, <1>8, <1>9, DocsStay, Found

-----------------------------------------------------------------------------
LEMMA GraphStarts ==
  ASSUME GInit
  PROVE  GraphInv
<1>1. PICK d \in Doc :
         /\ doc = [o \in Doc |-> IF o = d THEN [status |-> "chunked", chunk_count |-> 1] ELSE NoDoc]
         /\ chunk = {<<d, 1>>}
         /\ \E a, b \in EntityName : a # b /\ entity =
              {[id |-> 1, name_norm |-> a, status |-> "pending", source |-> {<<d, 1>>}],
               [id |-> 2, name_norm |-> b, status |-> "pending", source |-> {<<d, 1>>}]}
  BY DEF GInit
<1>2. base = TRUE /\ ids = 2 /\ rel = {} /\ job = [j \in Job |-> NoJob] /\ task = [j \in Job |-> NoTask]
      /\ ocr = [o \in Doc |-> NoProc] /\ drop = [o \in Doc |-> NoDrop] /\ wipe = NoWipe
      /\ late = [docs |-> {}, jobs |-> {}]
  BY DEF GInit
<1>3. <<d, 1>> \in Spot /\ IsFiniteSet(chunk)
  BY <1>1, FS_Singleton DEF Spot
<1>8. NoDrop \in DropRow /\ NoDrop.chunks = {} /\ ~NoDrop.open
  BY DEF NoDrop, DropRow
<1>4. ASSUME NEW o \in Doc PROVE DocGood(o)
  <2>1. NoDoc.chunk_count = 0 /\ NoDoc.status = "none"
    BY DEF NoDoc
  <2>2. CASE o = d
    <3>1. doc[o].chunk_count = 1 /\ doc[o].status = "chunked"
      BY <1>1, <2>2
    <3>2. ChunksOf(o) = {<<d, 1>>}
      BY <1>1, <2>2 DEF ChunksOf
    <3>3. Cut(o, 1) = {<<o, 1>>}
      BY DEF Cut
    <3> QED
      BY <1>2, <1>8, <2>2, <3>1, <3>2, <3>3, NoWipeIs DEF DocGood, Present
  <2>3. CASE o # d
    <3>1. doc[o] = NoDoc
      BY <1>1, <2>3
    <3>2. ChunksOf(o) = {} /\ ~Present(o)
      BY <1>1, <2>1, <2>3, <3>1 DEF ChunksOf, Present
    <3> QED
      BY <1>2, <1>8, <2>1, <3>1, <3>2, NoWipeIs DEF DocGood
  <2> QED
    BY <2>2, <2>3
<1>5. DocsGood
  <2>1. doc \in [Doc -> DocRow]
    BY <1>1 DEF NoDoc, DocRow
  <2> QED
    BY <1>1, <1>2, <1>3, <1>4, <1>8, <2>1, NoWipeIs DEF DocsGood
<1>6. GraphGood
  <2>1. entity \subseteq EntityRow(2)
    BY <1>1, <1>3 DEF EntityRow
  <2> QED
    BY <1>2, <2>1, NoWipeIs DEF GraphGood, FoundLate, Passed, FoundOnce, ShownWhole
<1>7. JobsGood
  <2>1. NoTask \in JobTask(2) /\ NoTask.pc = "none" /\ NoTask.proc = NoProc /\ NoTask.failed = 0
    BY DEF NoTask, JobTask
  <2>2. JobFits(NoTask, NoJob) /\ ~Busy(NoTask)
    BY <2>1, NoJobIs DEF JobFits, Busy
  <2> QED
    BY <1>2, <2>1, <2>2, NoJobIs DEF JobsGood, JobKnown
<1> QED
  BY <1>5, <1>6, <1>7 DEF GraphInv

LEMMA GraphNext ==
  ASSUME GraphInv, [GNext]_gvars
  PROVE  GraphInv'
<1>1. ASSUME NEW d \in Doc, NEW n \in 0 .. MaxChunks, AddDocument(d, n) \/ RunOcrJob(d, n) PROVE GraphInv'
  BY <1>1, AddDocumentKeeps, OcrKeeps
<1>2. ASSUME NEW d \in Doc, \/ \E p \in Proc : CreatePendingDocument(d, p)
                            \/ DeleteDocument(d) \/ CommitDrop(d) \/ DropFails(d)
      PROVE  GraphInv'
  BY <1>2, PendingDocumentKeeps, DropMoves, CommitDropKeeps
<1>3. ASSUME NEW d \in Doc, OcrFails(d) PROVE GraphInv'
  <2>1. 0 \in 0 .. MaxChunks
    BY GraphAssumption
  <2> QED
    BY <1>3, <2>1, OcrKeeps
<1>4. ASSUME NEW j \in Job, \/ \E p \in Proc : AskForJob(j, p)
                            \/ CreateJob(j) \/ RunExtractionJob(j) \/ FindBase(j) \/ CannotRun(j) \/ LoadJob(j)
                            \/ ExtractChunk(j) \/ FlushFails(j) \/ JobEnds(j)
      PROVE  GraphInv'
  BY <1>4, AskForJobKeeps, CreateJobKeeps, RunKeeps, FindBaseKeeps, CannotRunKeeps, LoadJobKeeps, ExtractChunkKeeps, JobEndsKeeps
<1>5. ASSUME NEW e \in entity, (\E n \in EntityName : RenameEntity(e, n)) \/ DeleteEntity(e) \/ ApproveEntity(e)
      PROVE  GraphInv'
  BY <1>5, EntityKeeps, DeletionsKeep
<1>6. ASSUME NEW r \in rel, DeleteRelationship(r) \/ ApproveRelationship(r) PROVE GraphInv'
  BY <1>6, DeletionsKeep, ApproveRelationshipKeeps
<1>7. CASE DeleteKb \/ WipeGraph \/ WipeChunks \/ CommitWipe \/ WipeFails \/ \E p \in Proc : ProcessDies(p)
  BY <1>7, WipeKeeps, CommitWipeKeeps, ProcessDiesKeeps
<1>8. CASE UNCHANGED gvars
  <2>1. UNCHANGED <<base, graph, jobs, docs, deletions, late>>
    BY <1>8 DEF gvars, graph, jobs, docs, deletions
  <2>2. DocsGood'
    BY <2>1, DocsStay
  <2>3. wipe' = wipe /\ late'.jobs = late.jobs /\ base' = base
    BY <2>1 DEF deletions
  <2> QED
    BY <2>1, <2>2, <2>3, DocsMove
<1>9. CASE GNext
  BY <1>9, <1>1, <1>2, <1>3, <1>4, <1>5, <1>6, <1>7 DEF GNext
<1> QED
  BY <1>8, <1>9

LEMMA GraphShows ==
  ASSUME GraphInv
  PROVE  GraphWhole
<1>1. DocumentsWhole
  <2>1. ASSUME NEW d \in Doc, Present(d)
        PROVE  Cardinality(ChunksOf(d)) = doc[d].chunk_count /\ (doc[d].status = "chunked" <=> ChunksOf(d) # {})
    <3>1. DocGood(d) /\ doc[d].chunk_count \in Nat
      BY GraphKnown DEF DocRow
    <3>2. Cut(d, doc[d].chunk_count) # {} <=> doc[d].chunk_count > 0
      <4>1. \A n \in Nat : n > 0 => <<d, 1>> \in Cut(d, n)
        BY DEF Cut
      <4>2. \A n \in Nat : ~(n > 0) => Cut(d, n) = {}
        BY DEF Cut
      <4> QED
        BY <3>1, <4>1, <4>2
    <3> QED
      BY <2>1, <3>1, <3>2, CutCount DEF DocGood
  <2>2. ASSUME NEW c \in chunk PROVE (base /\ Present(c[1])) \/ c[1] \in late.docs
    <3>1. c[1] \in Doc /\ c \in ChunksOf(c[1])
      BY GraphKnown DEF Spot, ChunksOf
    <3>2. DocGood(c[1]) /\ base \in BOOLEAN
      BY <3>1, GraphKnown
    <3> QED
      BY <3>1, <3>2 DEF DocGood
  <2>3. ASSUME ~base
        PROVE  /\ \A d \in Doc : Present(d) => d \in late.docs
               /\ \A j \in Job : job[j] # NoJob => j \in late.jobs
               /\ entity # {} => late.jobs # {}
               /\ \A r \in rel : r.job \in late.jobs
    <3>1. wipe.jobs = {}
      BY <2>3, GraphKnown, NoWipeIs
    <3>2. \A d \in Doc : Present(d) => d \in late.docs
      <4> SUFFICES ASSUME NEW d \in Doc, Present(d) PROVE d \in late.docs
        OBVIOUS
      <4>1. DocGood(d)
        BY GraphKnown
      <4> QED
        BY <2>3, <4>1 DEF DocGood
    <3>3. \A j \in Job : job[j] # NoJob => j \in late.jobs
      BY <2>3, <3>1, GraphKnown DEF JobKnown
    <3>4. (entity # {} => late.jobs # {}) /\ \A r \in rel : r.job \in late.jobs
      BY <2>3 DEF GraphInv, GraphGood, FoundLate
    <3> QED
      BY <3>2, <3>3, <3>4
  <2> QED
    BY <2>1, <2>2, <2>3 DEF DocumentsWhole
<1>2. JobTells
  BY GraphKnown DEF JobTells, JobFits
<1> QED
  BY <1>1, <1>2 DEF GraphWhole, GraphInv, GraphGood

(* A knowledge base is whole, whatever its jobs, its uploads, its remote       *)
(* parsers and those who review or delete do to one another between any two    *)
(* statements: only what overlaps a deletion outlives it.                      *)
THEOREM GraphStaysWhole == GSpec => []GraphWhole
<1>1. GInit => GraphInv
  BY GraphStarts
<1>2. GraphInv /\ [GNext]_gvars => GraphInv'
  BY GraphNext
<1>3. GraphInv => GraphWhole
  BY GraphShows
<1> QED
  BY <1>1, <1>2, <1>3, PTL DEF GSpec

-----------------------------------------------------------------------------
(* Memories.                                                                   *)

SnapMaps == UNION {[S -> Snapshots] : S \in SUBSET MemId}
ChangeRec == [kind : {"create", "edit", "delete", "restore", "automatic_sources", "automatic_update", "merge", "undo"},
              before : SnapMaps, after : SnapMaps, undone : Nat]
PlanRec == [seen : SnapMaps, applied : Nat]
WriterRec == [pc : {"new", "open", "lock", "look", "decide", "over"}, op : {"none"}, id : 0 .. MaxMem,
              scope : MemScope \cup {Unheld}, content : Text \cup {Unheld}, seen : SnapMaps \cup {<<>>}]

(* A memory is its versions.                                                   *)
RowGood(m) == /\ \A i \in DOMAIN vers[m] : vers[m][i].version = i
              /\ mem[m] = IF vers[m] = <<>> THEN NoRow ELSE Row(Last(vers[m]))
(* A change has written the versions after those that it saw, and a merge is   *)
(* of states that will never be again.                                         *)
ChangeGood(c) ==
    /\ \A m \in DOMAIN c.after :
         LET v == c.after[m].version IN
         /\ v \in DOMAIN vers[m] /\ vers[m][v] = c.after[m] /\ (v > 1 => c.before[m] = vers[m][v - 1])
    /\ c.kind = "merge" => /\ DOMAIN c.before # {}
                           /\ \A m \in DOMAIN c.before : c.before[m].version < Len(vers[m])
History == /\ vers \in [MemId -> Seq(Snapshots)] /\ chg \in Seq(ChangeRec)
           /\ \A m \in MemId : RowGood(m)
           /\ \A i \in DOMAIN chg : ChangeGood(chg[i]) /\ chg[i].undone \in 0 .. Len(chg)
           /\ UndoExact
Plans == /\ plan \subseteq PlanRec
         /\ \A p \in plan : /\ \A m \in DOMAIN p.seen : p.seen[m].exists
                            /\ p.applied # 0 => p.applied \in DOMAIN chg /\ chg[p.applied].kind = "merge"
         /\ MergedAsShown
(* The first version of a memory is the one there is, and it tells this.       *)
First(o, s, c) == Live(o) /\ mem[o].version = 1 /\ mem[o].scope = s /\ mem[o].content = c
WriterGood(w) ==
    /\ wr[w].pc = "open" => wr[w].id \in MemId /\ wr[w].seen \in SnapMaps
    /\ wr[w].pc \in {"lock", "look", "decide"} => wr[w].scope \in MemScope /\ wr[w].content \in Text
    /\ wr[w].pc \in {"look", "decide"} => lock[wr[w].scope] = w
    /\ wr[w].pc = "decide" => wr[w].seen \in SnapMaps /\ \A o \in auto : ~First(o, wr[w].scope, wr[w].content)
Writers == /\ wr \in [Writer -> WriterRec] /\ lock \in [MemScope -> Writer \cup {Unheld}] /\ auto \subseteq MemId
           /\ \A w \in Writer : WriterGood(w)
           /\ \A m \in auto : vers[m] # <<>>
           /\ \A m, o \in auto : m # o => \A s \in MemScope, c \in Text : ~(First(m, s, c) /\ First(o, s, c))
MemInv == History /\ Plans /\ Writers


-----------------------------------------------------------------------------
LEMMA PartialHas ==
  ASSUME NEW f \in SnapMaps
  PROVE  /\ DOMAIN f \in SUBSET MemId /\ f \in [DOMAIN f -> Snapshots]
         /\ \A m \in DOMAIN f : m \in MemId /\ f[m] \in Snapshots
  BY DEF SnapMaps

LEMMA PartialIs ==
  ASSUME NEW S \in SUBSET MemId, NEW f \in [S -> Snapshots]
  PROVE  f \in SnapMaps
  BY DEF SnapMaps

LEMMA OneIs ==
  ASSUME NEW m \in MemId, NEW s \in Snapshots
  PROVE  One(m, s) \in SnapMaps /\ DOMAIN One(m, s) = {m} /\ One(m, s)[m] = s
<1>1. One(m, s) \in [{m} -> Snapshots] /\ DOMAIN One(m, s) = {m} /\ One(m, s)[m] = s
  BY DEF One
<1> QED
  BY <1>1, PartialIs

LEMMA NoneIs == [o \in {} |-> 0] \in SnapMaps
<1>1. [o \in {} |-> 0] \in [{} -> Snapshots]
  OBVIOUS
<1> QED
  BY <1>1, PartialIs

(* What a state becomes.                                                       *)
LEMMA Becomes ==
  ASSUME NEW s \in Snapshots, NEW scope \in MemScope, NEW content \in Text
  PROVE  /\ Rewritten(s, scope, content) \in Snapshots /\ Rewritten(s, scope, content).version = s.version + 1
         /\ Removed(s) \in Snapshots /\ Removed(s).version = s.version + 1
         /\ FirstVersion(scope, content) \in Snapshots /\ FirstVersion(scope, content).version = 1
<1>1. PICK v : v = s.version + 1
  OBVIOUS
<1>2. v \in Nat
  BY <1>1 DEF Snapshots
<1>3. PICK r : r = [s EXCEPT !.scope = scope, !.content = content, !.version = v, !.exists = TRUE]
  OBVIOUS
<1>4. r \in Snapshots /\ r.version = v
  BY <1>2, <1>3 DEF Snapshots
<1>6. PICK q : q = [s EXCEPT !.exists = FALSE, !.version = v]
  OBVIOUS
<1>7. q \in Snapshots /\ q.version = v
  BY <1>2, <1>6 DEF Snapshots
<1>8. Rewritten(s, scope, content) = r /\ Removed(s) = q
  BY <1>1, <1>3, <1>6 DEF Rewritten, Removed
<1>5. FirstVersion(scope, content) \in Snapshots /\ FirstVersion(scope, content).version = 1
  BY DEF FirstVersion, Snapshots
<1> QED
  BY <1>1, <1>4, <1>5, <1>7, <1>8

LEMMA LastIs ==
  ASSUME NEW T, NEW s \in Seq(T), s # <<>>
  PROVE  Len(s) \in Nat \ {0} /\ Len(s) \in DOMAIN s /\ Last(s) = s[Len(s)] /\ Last(s) \in T
  BY DEF Last

(* Versions of a memory.                                                       *)
LEMMA VersionsAre ==
  ASSUME History, NEW m \in MemId
  PROVE  /\ vers[m] \in Seq(Snapshots) /\ Len(vers[m]) \in Nat /\ DOMAIN vers[m] = 1 .. Len(vers[m])
         /\ \A i \in 1 .. Len(vers[m]) : vers[m][i] \in Snapshots /\ vers[m][i].version = i
         /\ mem[m] = IF vers[m] = <<>> THEN NoRow ELSE Row(Last(vers[m]))
         /\ (vers[m] = <<>> <=> Len(vers[m]) = 0)
  BY DEF History, RowGood

(* What a row was seen as, if it is still that, is its last version.           *)
LEMMA SnapIs ==
  ASSUME History, NEW m \in MemId, Live(m)
  PROVE  /\ vers[m] # <<>> /\ Snap(mem[m]) = Last(vers[m]) /\ Last(vers[m]) = vers[m][Len(vers[m])]
         /\ Snap(mem[m]) \in Snapshots /\ Snap(mem[m]).version = Len(vers[m]) /\ Snap(mem[m]).exists = TRUE
         /\ mem[m].version = Len(vers[m])
<1>1. vers[m] # <<>> /\ mem[m] = Row(Last(vers[m])) /\ Row(Last(vers[m])) # NoRow
  BY VersionsAre DEF Live
<1>2. PICK l : l = Last(vers[m])
  OBVIOUS
<1>3. l = vers[m][Len(vers[m])] /\ l \in Snapshots /\ l.version = Len(vers[m])
  BY <1>1, <1>2, VersionsAre, LastIs
<1>4. l.exists = TRUE
  BY <1>1, <1>2, <1>3 DEF Row, Snapshots
<1>5. mem[m] = [version |-> l.version, scope |-> l.scope, content |-> l.content]
  BY <1>1, <1>2, <1>4 DEF Row
<1>6. Snap(mem[m]) = [version |-> l.version, exists |-> TRUE, scope |-> l.scope, content |-> l.content]
  BY <1>5 DEF Snap
<1>7. Snap(mem[m]) = l
  BY <1>3, <1>4, <1>6 DEF Snapshots
<1> QED
  BY <1>1, <1>2, <1>3, <1>4, <1>5, <1>7

LEMMA StillIs ==
  ASSUME History, NEW m \in MemId, NEW s, UnchangedSince(m, s)
  PROVE  /\ vers[m] # <<>> /\ s = Last(vers[m]) /\ s \in Snapshots /\ s.version = Len(vers[m]) /\ s.exists = TRUE
         /\ Live(m) /\ s = Snap(mem[m])
  BY SnapIs DEF UnchangedSince

-----------------------------------------------------------------------------
(* The new memory.                                                             *)

LEMMA NewIdIs ==
  ASSUME Fresh # {}
  PROVE  NewId \in Fresh
<1>1. Fresh \subseteq Nat
  BY MemoryAssumption DEF Fresh, MemId
<1> DEFINE R == OpToRel(<, Nat)
<1>4. IsWellFoundedOn(R, Nat)
  BY NatLessThanWellFounded
<1>5. \A a, b \in Nat : a < b => <<a, b>> \in R
  BY DEF OpToRel
<1> HIDE DEF R
<1>2. PICK m \in Fresh : \A o \in Fresh : <<o, m>> \notin R
  BY <1>1, <1>4, WFMin
<1>6. \A o \in Fresh : ~(o < m)
  BY <1>1, <1>2, <1>5
<1>3. \A o \in Fresh : m <= o
  <2>1. m \in Nat /\ \A o \in Fresh : o \in Nat
    BY <1>1, <1>2
  <2> QED
    BY <1>6, <2>1
<1> QED
  BY <1>3 DEF NewId

LEMMA NewIdFresh ==
  ASSUME History, Fresh # {}
  PROVE  NewId \in MemId /\ vers[NewId] = <<>> /\ Len(vers[NewId]) = 0 /\ mem[NewId] = NoRow
<1>1. NewId \in MemId /\ vers[NewId] = <<>>
  BY NewIdIs DEF Fresh
<1> QED
  BY <1>1, VersionsAre


-----------------------------------------------------------------------------
(* What a change does to the history.                                          *)

(* The change c is made: its states come after the last versions.              *)
Makes(c) ==
    /\ c \in ChangeRec /\ c.undone = 0
    /\ vers' = [m \in MemId |-> IF m \in DOMAIN c.after THEN Append(vers[m], c.after[m]) ELSE vers[m]]
    /\ mem' = [m \in MemId |-> IF m \in DOMAIN c.after THEN Row(c.after[m]) ELSE mem[m]]
    /\ \A m \in DOMAIN c.after : /\ c.after[m].version = Len(vers[m]) + 1
                                 /\ vers[m] # <<>> => c.before[m] = Last(vers[m])
    /\ c.kind = "merge" => /\ DOMAIN c.before # {}
                           /\ \A m \in DOMAIN c.before : m \in DOMAIN c.after /\ c.before[m].version = Len(vers[m])

LEMMA ChangeHas ==
  ASSUME NEW c \in ChangeRec
  PROVE  /\ c.after \in SnapMaps /\ c.before \in SnapMaps /\ c.undone \in Nat
         /\ \A m \in DOMAIN c.after : m \in MemId /\ c.after[m] \in Snapshots
         /\ \A m \in DOMAIN c.before : m \in MemId /\ c.before[m] \in Snapshots
<1>1. c.after \in SnapMaps /\ c.before \in SnapMaps /\ c.undone \in Nat
  BY DEF ChangeRec
<1> QED
  BY <1>1, PartialHas

LEMMA MadeVersions ==
  ASSUME History, NEW c, Makes(c), NEW m \in MemId
  PROVE  /\ Len(vers[m]) \in Nat /\ DOMAIN vers[m] = 1 .. Len(vers[m])
         /\ vers'[m] \in Seq(Snapshots) /\ Len(vers'[m]) \in Nat /\ DOMAIN vers'[m] = 1 .. Len(vers'[m])
         /\ Len(vers[m]) <= Len(vers'[m])
         /\ \A i \in 1 .. Len(vers[m]) : i \in 1 .. Len(vers'[m]) /\ vers'[m][i] = vers[m][i]
         /\ m \notin DOMAIN c.after => vers'[m] = vers[m] /\ mem'[m] = mem[m]
         /\ m \in DOMAIN c.after => /\ Len(vers'[m]) = Len(vers[m]) + 1 /\ vers'[m][Len(vers[m]) + 1] = c.after[m]
                                    /\ vers'[m] # <<>> /\ Last(vers'[m]) = c.after[m] /\ mem'[m] = Row(c.after[m])
         /\ RowGood(m)'
<1>1. /\ vers[m] \in Seq(Snapshots) /\ Len(vers[m]) \in Nat /\ DOMAIN vers[m] = 1 .. Len(vers[m])
      /\ \A i \in 1 .. Len(vers[m]) : vers[m][i] \in Snapshots /\ vers[m][i].version = i
      /\ mem[m] = IF vers[m] = <<>> THEN NoRow ELSE Row(Last(vers[m]))
  BY VersionsAre
<1>2. CASE m \notin DOMAIN c.after
  <2>1. vers'[m] = vers[m] /\ mem'[m] = mem[m]
    BY <1>2 DEF Makes
  <2>2. RowGood(m)'
    BY <1>1, <2>1 DEF RowGood
  <2> QED
    BY <1>1, <1>2, <2>1, <2>2
<1>3. CASE m \in DOMAIN c.after
  <2>1. vers'[m] = Append(vers[m], c.after[m]) /\ mem'[m] = Row(c.after[m]) /\ c.after[m].version = Len(vers[m]) + 1
    BY <1>3 DEF Makes
  <2>2. c.after[m] \in Snapshots
    BY <1>3, ChangeHas DEF Makes
  <2>3. /\ vers'[m] \in Seq(Snapshots) /\ Len(vers'[m]) = Len(vers[m]) + 1 /\ DOMAIN vers'[m] = 1 .. Len(vers[m]) + 1
        /\ vers'[m][Len(vers[m]) + 1] = c.after[m] /\ \A i \in 1 .. Len(vers[m]) : vers'[m][i] = vers[m][i]
        /\ vers'[m] # <<>> /\ Last(vers'[m]) = c.after[m]
    <3>1. PICK s, e, r : s \in Seq(Snapshots) /\ e \in Snapshots /\ s = vers[m] /\ e = c.after[m] /\ r = Append(s, e) /\ r = vers'[m]
      BY <1>1, <2>1, <2>2
    <3>2. /\ r \in Seq(Snapshots) /\ Len(r) = Len(s) + 1 /\ DOMAIN r = 1 .. Len(s) + 1
          /\ r[Len(s) + 1] = e /\ (\A i \in 1 .. Len(s) : r[i] = s[i]) /\ r # <<>> /\ Last(r) = e
      <4>1. /\ r \in Seq(Snapshots) /\ Len(s) \in Nat /\ Len(r) = Len(s) + 1 /\ DOMAIN r = 1 .. Len(s) + 1
            /\ r[Len(s) + 1] = e /\ \A i \in 1 .. Len(s) : r[i] = s[i]
        <5>1. r = Append(s, e)
          BY <3>1
        <5>2. s \in Seq(Snapshots) /\ e \in Snapshots
          BY <3>1
        <5>3. Append(s, e) \in Seq(Snapshots) /\ Len(Append(s, e)) = Len(s) + 1
          BY ONLY <5>2
        <5>4. Append(s, e)[Len(s) + 1] = e /\ \A i \in 1 .. Len(s) : Append(s, e)[i] = s[i]
          BY ONLY <5>2
        <5>5. Len(s) \in Nat /\ DOMAIN Append(s, e) = 1 .. Len(Append(s, e))
          BY <5>2, <5>3
        <5> QED
          BY <5>1, <5>3, <5>4, <5>5
      <4>2. Len(<<>>) = 0
        OBVIOUS
      <4>3. r # <<>>
        BY <4>1, <4>2
      <4> QED
        BY <4>1, <4>3 DEF Last
    <3> QED
      BY <3>1, <3>2
  <2>4. \A i \in DOMAIN vers'[m] : vers'[m][i].version = i
    BY <1>1, <2>1, <2>3
  <2>5. RowGood(m)'
    BY <2>1, <2>3, <2>4 DEF RowGood
  <2> QED
    BY <1>1, <1>3, <2>1, <2>3, <2>5
<1> QED
  BY <1>2, <1>3

(* The changes that there were stay good, and the new one is.                  *)
LEMMA MadeChanges ==
  ASSUME History, NEW c, Makes(c)
  PROVE  /\ \A d \in ChangeRec : ChangeGood(d) => ChangeGood(d)'
         /\ ChangeGood(c)'
<1>1. \A m \in MemId :
         /\ Len(vers[m]) \in Nat /\ Len(vers'[m]) \in Nat /\ DOMAIN vers[m] = 1 .. Len(vers[m])
         /\ DOMAIN vers'[m] = 1 .. Len(vers'[m]) /\ Len(vers[m]) <= Len(vers'[m])
         /\ \A i \in 1 .. Len(vers[m]) : i \in 1 .. Len(vers'[m]) /\ vers'[m][i] = vers[m][i]
         /\ m \in DOMAIN c.after => Len(vers'[m]) = Len(vers[m]) + 1 /\ vers'[m][Len(vers[m]) + 1] = c.after[m]
  BY MadeVersions
<1>2. ASSUME NEW d \in ChangeRec, ChangeGood(d) PROVE ChangeGood(d)'
  <2>1. ASSUME NEW m \in DOMAIN d.after
        PROVE  LET v == d.after[m].version IN
               /\ v \in DOMAIN vers'[m] /\ vers'[m][v] = d.after[m] /\ (v > 1 => d.before[m] = vers'[m][v - 1])
    <3>1. PICK v : v = d.after[m].version
      OBVIOUS
    <3>2. m \in MemId /\ v \in DOMAIN vers[m] /\ vers[m][v] = d.after[m] /\ (v > 1 => d.before[m] = vers[m][v - 1])
      BY <1>2, <3>1, ChangeHas DEF ChangeGood
    <3>3. v \in 1 .. Len(vers[m]) /\ (v > 1 => v - 1 \in 1 .. Len(vers[m]))
      BY <1>1, <3>2
    <3>4. vers'[m][v] = vers[m][v] /\ (v > 1 => vers'[m][v - 1] = vers[m][v - 1]) /\ v \in DOMAIN vers'[m]
      BY <1>1, <3>2, <3>3
    <3> QED
      BY <3>1, <3>2, <3>4
  <2>2. d.kind = "merge" => \A m \in DOMAIN d.before : d.before[m].version < Len(vers'[m])
    <3> SUFFICES ASSUME d.kind = "merge", NEW m \in DOMAIN d.before PROVE d.before[m].version < Len(vers'[m])
      OBVIOUS
    <3>1. m \in MemId /\ d.before[m] \in Snapshots /\ d.before[m].version < Len(vers[m])
      BY <1>2, ChangeHas DEF ChangeGood
    <3>2. d.before[m].version \in Nat
      BY <3>1 DEF Snapshots
    <3> QED
      BY <1>1, <3>1, <3>2
  <2> QED
    BY <1>2, <2>1, <2>2 DEF ChangeGood
<1>3. ChangeGood(c)'
  <2>1. c \in ChangeRec
    BY DEF Makes
  <2>2. ASSUME NEW m \in DOMAIN c.after
        PROVE  LET v == c.after[m].version IN
               /\ v \in DOMAIN vers'[m] /\ vers'[m][v] = c.after[m] /\ (v > 1 => c.before[m] = vers'[m][v - 1])
    <3>1. m \in MemId /\ c.after[m].version = Len(vers[m]) + 1 /\ (vers[m] # <<>> => c.before[m] = Last(vers[m]))
      BY <2>1, ChangeHas DEF Makes
    <3>2. Len(vers[m]) + 1 \in DOMAIN vers'[m] /\ vers'[m][Len(vers[m]) + 1] = c.after[m]
      BY <1>1, <3>1
    <3>3. ASSUME Len(vers[m]) + 1 > 1 PROVE c.before[m] = vers'[m][Len(vers[m])]
      <4>1. vers[m] # <<>> /\ Last(vers[m]) = vers[m][Len(vers[m])] /\ Len(vers[m]) \in 1 .. Len(vers[m])
        BY <1>1, <3>1, <3>3, VersionsAre, LastIs
      <4> QED
        BY <1>1, <3>1, <4>1
    <3>4. Len(vers[m]) + 1 - 1 = Len(vers[m])
      BY <1>1, <3>1
    <3> QED
      BY <3>1, <3>2, <3>3, <3>4
  <2>3. c.kind = "merge" => /\ DOMAIN c.before # {}
                            /\ \A m \in DOMAIN c.before : c.before[m].version < Len(vers'[m])
    <3> SUFFICES ASSUME c.kind = "merge"
                 PROVE  DOMAIN c.before # {} /\ \A m \in DOMAIN c.before : c.before[m].version < Len(vers'[m])
      OBVIOUS
    <3>1. DOMAIN c.before # {} /\ \A m \in DOMAIN c.before : m \in DOMAIN c.after /\ c.before[m].version = Len(vers[m])
      BY DEF Makes
    <3>2. \A m \in DOMAIN c.before : m \in MemId
      BY <2>1, ChangeHas
    <3> QED
      BY <1>1, <3>1, <3>2
  <2> QED
    BY <2>2, <2>3 DEF ChangeGood
<1> QED
  BY <1>2, <1>3


LEMMA Changed ==
  ASSUME History, NEW i \in DOMAIN chg
  PROVE  /\ Len(chg) \in Nat /\ DOMAIN chg = 1 .. Len(chg) /\ chg[i] \in ChangeRec /\ ChangeGood(chg[i])
         /\ chg[i].undone \in 0 .. Len(chg)
  BY DEF History

(* The change u takes d back.                                                  *)
Undoes(u, d) ==
    /\ u.before = d.after /\ u.kind = "undo"
    /\ \A m \in DOMAIN d.before \cap DOMAIN u.after :
         d.before[m].exists => [u.after[m] EXCEPT !.version = 0] = [d.before[m] EXCEPT !.version = 0]
    /\ \A m \in DOMAIN u.after : u.after[m].version = d.after[m].version + 1
AllUndone == \A i \in DOMAIN chg : chg[i].undone # 0 =>
    /\ Undoes(chg[chg[i].undone], chg[i])
    /\ \A j \in DOMAIN chg \ {i} : chg[j].undone # chg[i].undone
LEMMA UndoneIs == UndoExact <=> AllUndone
  BY DEF UndoExact, AllUndone, Undoes
LEMMA UndoneStays == UndoExact' <=> AllUndone'
  BY DEF UndoExact, AllUndone, Undoes

(* A change is recorded.                                                       *)
LEMMA RecordKeeps ==
  ASSUME History, NEW c, Makes(c), chg' = Append(chg, c)
  PROVE  /\ History' /\ Len(chg) \in Nat /\ Len(chg') = Len(chg) + 1 /\ DOMAIN chg' = 1 .. Len(chg) + 1
         /\ DOMAIN chg = 1 .. Len(chg)
         /\ chg'[Len(chg) + 1] = c /\ \A i \in 1 .. Len(chg) : chg'[i] = chg[i]
<1>1. c \in ChangeRec /\ c.undone = 0
  BY DEF Makes
<1>2. chg \in Seq(ChangeRec)
  BY DEF History
<1>3. /\ chg' \in Seq(ChangeRec) /\ Len(chg) \in Nat /\ Len(chg') = Len(chg) + 1 /\ DOMAIN chg' = 1 .. Len(chg) + 1
      /\ DOMAIN chg = 1 .. Len(chg)
      /\ chg'[Len(chg) + 1] = c /\ \A i \in 1 .. Len(chg) : chg'[i] = chg[i]
  BY <1>1, <1>2
<1>4. vers' \in [MemId -> Seq(Snapshots)] /\ \A m \in MemId : RowGood(m)'
  <2>1. \A m \in MemId : vers'[m] \in Seq(Snapshots) /\ RowGood(m)'
    BY MadeVersions
  <2> QED
    BY <2>1 DEF Makes
<1>5. \A d \in ChangeRec : ChangeGood(d) => ChangeGood(d)'
  BY MadeChanges
<1>6. ChangeGood(c)'
  BY MadeChanges
<1>7. ASSUME NEW i \in DOMAIN chg' PROVE (ChangeGood(chg[i]))' /\ chg'[i].undone \in 0 .. Len(chg')
  <2>1. CASE i = Len(chg) + 1
    <3>1. chg'[i] = c
      BY <1>3, <2>1
    <3>2. 0 \in 0 .. Len(chg')
      BY <1>3
    <3> QED
      BY <1>1, <1>6, <3>1, <3>2 DEF ChangeGood
  <2>2. CASE i \in 1 .. Len(chg)
    <3>1. PICK d \in ChangeRec : d = chg[i]
      BY <1>3, <2>2, Changed
    <3>2. ChangeGood(d) /\ d.undone \in 0 .. Len(chg)
      BY <1>3, <2>2, <3>1, Changed
    <3>3. chg'[i] = d
      BY <1>3, <2>2, <3>1
    <3>4. ChangeGood(d)'
      BY <1>5, <3>2
    <3>5. d.undone \in 0 .. Len(chg')
      BY <1>3, <3>2
    <3> QED
      BY <3>3, <3>4, <3>5 DEF ChangeGood
  <2> QED
    BY <1>3, <1>7, <2>1, <2>2
<1>8. AllUndone'
  <2> SUFFICES ASSUME NEW i \in DOMAIN chg', chg'[i].undone # 0
               PROVE  /\ Undoes(chg'[chg'[i].undone], chg'[i])
                      /\ \A j \in DOMAIN chg' \ {i} : chg'[j].undone # chg'[i].undone
    BY DEF AllUndone, Undoes
  <2>1. i \in 1 .. Len(chg) /\ chg'[i] = chg[i] /\ chg[i].undone # 0
    BY <1>1, <1>3
  <2>2. chg[i].undone \in 1 .. Len(chg)
    BY <1>3, <2>1, Changed
  <2>3. AllUndone
    BY UndoneIs DEF History
  <2>4. Undoes(chg[chg[i].undone], chg[i]) /\ \A j \in DOMAIN chg \ {i} : chg[j].undone # chg[i].undone
    BY <1>3, <2>1, <2>3 DEF AllUndone
  <2>5. chg'[chg'[i].undone] = chg[chg[i].undone]
    BY <1>3, <2>1, <2>2
  <2>6. \A j \in DOMAIN chg' \ {i} : chg'[j].undone # chg'[i].undone
    BY <1>1, <1>3, <2>1, <2>4
  <2> QED
    BY <2>1, <2>4, <2>5, <2>6
<1> QED
  BY <1>3, <1>4, <1>7, <1>8, UndoneStays DEF History


LEMMA RecordIs ==
  ASSUME NEW kind \in {"create", "edit", "delete", "restore", "automatic_sources", "automatic_update", "merge"},
         NEW before \in SnapMaps, NEW after \in SnapMaps, Record(kind, before, after),
         \A m \in DOMAIN after : /\ after[m].version = Len(vers[m]) + 1
                                 /\ vers[m] # <<>> => before[m] = Last(vers[m]),
         kind = "merge" => /\ DOMAIN before # {}
                           /\ \A m \in DOMAIN before : m \in DOMAIN after /\ before[m].version = Len(vers[m])
  PROVE  \E c : Makes(c) /\ c.kind = kind /\ c.before = before /\ c.after = after /\ chg' = Append(chg, c)
<1> DEFINE c == [kind |-> kind, before |-> before, after |-> after, undone |-> 0]
<1>1. c \in ChangeRec /\ c.undone = 0 /\ c.kind = kind /\ c.before = before /\ c.after = after
  BY DEF ChangeRec
<1>2. chg' = Append(chg, c)
  BY DEF Record
<1> HIDE DEF c
<1>3. Makes(c)
  BY <1>1 DEF Record, Makes
<1> QED
  BY <1>1, <1>2, <1>3

-----------------------------------------------------------------------------
(* The plans and the writers.                                                  *)

LEMMA PlansStay ==
  ASSUME Plans, plan' = plan, Len(chg) \in Nat, DOMAIN chg = 1 .. Len(chg), DOMAIN chg' = 1 .. Len(chg) + 1,
         \A i \in 1 .. Len(chg) : chg'[i].kind = chg[i].kind /\ chg'[i].before = chg[i].before,
         chg'[Len(chg) + 1].kind # "merge"
  PROVE  Plans'
<1>1. ASSUME NEW p \in plan
      PROVE  /\ \A m \in DOMAIN p.seen : p.seen[m].exists
             /\ p.applied # 0 => p.applied \in DOMAIN chg' /\ chg'[p.applied].kind = "merge"
                                 /\ chg'[p.applied].before = p.seen
                                 /\ \A i \in DOMAIN chg' \ {p.applied} :
                                      chg'[i].kind = "merge" => chg'[i].before # p.seen
  <2>1. /\ \A m \in DOMAIN p.seen : p.seen[m].exists
        /\ p.applied # 0 => p.applied \in DOMAIN chg /\ chg[p.applied].kind = "merge"
    BY DEF Plans
  <2>2. p.applied # 0 => chg[p.applied].before = p.seen
                         /\ \A i \in DOMAIN chg \ {p.applied} : chg[i].kind = "merge" => chg[i].before # p.seen
    BY DEF Plans, MergedAsShown
  <2>3. p.applied # 0 => p.applied \in 1 .. Len(chg)
    BY <2>1
  <2>4. \A i \in DOMAIN chg' : chg'[i].kind = "merge" => i \in 1 .. Len(chg)
    OBVIOUS
  <2> QED
    BY <2>1, <2>2, <2>3, <2>4
<1> QED
  BY <1>1 DEF Plans, MergedAsShown

LEMMA PlansRest ==
  ASSUME Plans, UNCHANGED <<plan, chg>>
  PROVE  Plans'
  BY DEF Plans, MergedAsShown

LEMMA HistoryRests ==
  ASSUME History, UNCHANGED <<mem, vers, chg>>
  PROVE  History'
<1>1. AllUndone => AllUndone'
  BY DEF AllUndone, Undoes
<1>2. \A m \in MemId : RowGood(m) => RowGood(m)'
  BY DEF RowGood
<1>3. \A i \in DOMAIN chg : ChangeGood(chg[i]) => (ChangeGood(chg[i]))'
  BY DEF ChangeGood
<1> QED
  BY <1>1, <1>2, <1>3, UndoneIs, UndoneStays DEF History

(* A memory that was there is not new after a change.                          *)
LEMMA FirstOld ==
  ASSUME History, NEW c, Makes(c), NEW o \in MemId, vers[o] # <<>>, NEW s, NEW x, First(o, s, x)'
  PROVE  First(o, s, x)
<1>1. CASE o \notin DOMAIN c.after
  <2>1. mem'[o] = mem[o]
    BY <1>1 DEF Makes
  <2> QED
    BY <2>1 DEF First, Live
<1>2. CASE o \in DOMAIN c.after
  <2>1. mem'[o] = Row(c.after[o]) /\ c.after[o].version = Len(vers[o]) + 1 /\ c.after[o] \in Snapshots
    BY <1>2, ChangeHas DEF Makes
  <2>2. Len(vers[o]) \in Nat \ {0}
    BY VersionsAre, LastIs
  <2>3. mem'[o] # NoRow /\ mem'[o].version = 1
    BY DEF First, Live
  <2>4. c.after[o].exists
    BY <2>1, <2>3 DEF Row
  <2>5. mem'[o].version = Len(vers[o]) + 1
    BY <2>1, <2>4 DEF Row
  <2> QED
    BY <2>2, <2>3, <2>5
<1> QED
  BY <1>1, <1>2

(* No memory is new that was not.                                              *)
Older == \A o \in auto : /\ vers'[o] # <<>>
                         /\ \A s \in MemScope, x \in Text : First(o, s, x)' => First(o, s, x)

LEMMA MadeOlder ==
  ASSUME History, Writers, NEW c, Makes(c)
  PROVE  Older
<1>1. ASSUME NEW o \in auto PROVE vers'[o] # <<>> /\ \A s \in MemScope, x \in Text : First(o, s, x)' => First(o, s, x)
  <2>1. o \in MemId /\ vers[o] # <<>>
    BY DEF Writers
  <2>2. vers'[o] # <<>>
    BY <2>1, MadeVersions
  <2> QED
    BY <2>1, <2>2, FirstOld
<1> QED
  BY <1>1 DEF Older

LEMMA RestOlder ==
  ASSUME Writers, UNCHANGED <<mem, vers>>
  PROVE  Older
  BY DEF Older, Writers, First, Live

(* One writer becomes r.                                                       *)
LEMMA WriterTo ==
  ASSUME Writers, Older, auto' = auto, NEW w \in Writer, NEW r \in WriterRec, wr' = [wr EXCEPT ![w] = r],
         lock' \in [MemScope -> Writer \cup {Unheld}],
         \A v \in Writer : v # w /\ wr[v].pc \in {"look", "decide"} => lock'[wr[v].scope] = v,
         r.pc = "open" => r.id \in MemId /\ r.seen \in SnapMaps,
         r.pc \in {"lock", "look", "decide"} => r.scope \in MemScope /\ r.content \in Text,
         r.pc \in {"look", "decide"} => lock'[r.scope] = w,
         r.pc = "decide" => r.seen \in SnapMaps /\ \A o \in auto : ~First(o, r.scope, r.content)
  PROVE  Writers'
<1>1. wr' \in [Writer -> WriterRec] /\ wr'[w] = r /\ \A v \in Writer : v # w => wr'[v] = wr[v]
  BY DEF Writers
<1>2. ASSUME NEW v \in Writer PROVE WriterGood(v)'
  <2>1. CASE v = w
    <3>1. r.pc = "decide" => \A o \in auto : ~First(o, r.scope, r.content)'
      BY DEF Older
    <3> QED
      BY <1>1, <2>1, <3>1 DEF WriterGood, First, Live
  <2>2. CASE v # w
    <3>1. wr'[v] = wr[v] /\ WriterGood(v)
      BY <1>1, <2>2 DEF Writers
    <3>2. wr[v].pc = "decide" => \A o \in auto : ~First(o, wr[v].scope, wr[v].content)'
      BY <3>1 DEF Older, WriterGood
    <3>3. wr[v].pc \in {"look", "decide"} => lock'[wr[v].scope] = v
      BY <2>2
    <3> QED
      BY <3>1, <3>2, <3>3 DEF WriterGood, First, Live
  <2> QED
    BY <2>1, <2>2
<1>3. /\ auto' \subseteq MemId /\ \A m \in auto' : vers'[m] # <<>>
  BY DEF Writers, Older
<1>4. \A m, o \in auto' : m # o => \A s \in MemScope, x \in Text : ~(First(m, s, x) /\ First(o, s, x))'
  BY DEF Writers, Older
<1> QED
  BY <1>1, <1>2, <1>3, <1>4 DEF Writers, First, Live

(* No writer moves.                                                            *)
LEMMA WritersRest ==
  ASSUME Writers, Older, UNCHANGED <<auto, wr, lock>>
  PROVE  Writers'
<1>2. ASSUME NEW v \in Writer PROVE WriterGood(v)'
  <2>1. WriterGood(v)
    BY DEF Writers
  <2>2. wr[v].pc = "decide" => \A o \in auto : ~First(o, wr[v].scope, wr[v].content)'
    BY <2>1 DEF Older, WriterGood
  <2> QED
    BY <2>1, <2>2 DEF WriterGood, First, Live
<1>3. /\ auto' \subseteq MemId /\ \A m \in auto' : vers'[m] # <<>>
  BY DEF Writers, Older
<1>4. \A m, o \in auto' : m # o => \A s \in MemScope, x \in Text : ~(First(m, s, x) /\ First(o, s, x))'
  BY DEF Writers, Older
<1> QED
  BY <1>2, <1>3, <1>4 DEF Writers, First, Live

OverIs == [NoWriter EXCEPT !.pc = "over"]
LEMMA Done == OverIs \in WriterRec /\ OverIs.pc = "over"
  BY MemoryAssumption DEF OverIs, NoWriter, WriterRec

(* A writer is done and lets go of no lock but its own.                        *)
LEMMA DoneKeeps ==
  ASSUME Writers, Older, auto' = auto, NEW w \in Writer, WriterDone(w),
         lock' = lock \/ (wr[w].pc \in {"look", "decide"} /\ lock' = [lock EXCEPT ![wr[w].scope] = Unheld])
         \/ lock' = [s \in MemScope |-> IF lock[s] = w THEN Unheld ELSE lock[s]]
  PROVE  Writers'
<1>1. wr' = [wr EXCEPT ![w] = OverIs]
  BY DEF WriterDone, OverIs
<1>2. /\ lock \in [MemScope -> Writer \cup {Unheld}]
      /\ wr[w].pc \in {"look", "decide"} => wr[w].scope \in MemScope /\ lock[wr[w].scope] = w
      /\ \A v \in Writer : wr[v].pc \in {"look", "decide"} => wr[v].scope \in MemScope /\ lock[wr[v].scope] = v
  BY DEF Writers, WriterGood
<1>3. lock' \in [MemScope -> Writer \cup {Unheld}]
  BY <1>2
<1>4. \A v \in Writer : v # w /\ wr[v].pc \in {"look", "decide"} => lock'[wr[v].scope] = v
  BY <1>2
<1> QED
  BY <1>1, <1>3, <1>4, Done, WriterTo


-----------------------------------------------------------------------------
(* Steps by hand and of writers.                                               *)

LEMMA MadeKeeps ==
  ASSUME MemInv, \E c : Makes(c) /\ c.kind # "merge" /\ chg' = Append(chg, c), plan' = plan
  PROVE  History' /\ Plans' /\ Older
<1>1. PICK c : Makes(c) /\ c.kind # "merge" /\ chg' = Append(chg, c)
  OBVIOUS
<1>2. History /\ Plans /\ Writers
  BY DEF MemInv
<1>3. /\ History' /\ Len(chg) \in Nat /\ DOMAIN chg' = 1 .. Len(chg) + 1 /\ DOMAIN chg = 1 .. Len(chg)
      /\ chg'[Len(chg) + 1] = c /\ \A i \in 1 .. Len(chg) : chg'[i] = chg[i]
  BY <1>1, <1>2, RecordKeeps
<1>4. Plans'
  BY <1>1, <1>2, <1>3, PlansStay
<1>5. Older
  BY <1>1, <1>2, MadeOlder
<1> QED
  BY <1>3, <1>4, <1>5

LEMMA RestKeeps ==
  ASSUME MemInv, UNCHANGED <<mem, vers, chg, plan>>
  PROVE  History' /\ Plans' /\ Older
  BY HistoryRests, PlansRest, RestOlder DEF MemInv

LEMMA InsertedIs ==
  ASSUME History, NEW scope \in MemScope, NEW content \in Text, Inserted(scope, content)
  PROVE  \E c : /\ Makes(c) /\ c.kind = "create" /\ chg' = Append(chg, c)
                /\ DOMAIN c.after = {NewId} /\ c.after[NewId] = FirstVersion(scope, content)
<1> DEFINE s == FirstVersion(scope, content)
<1>1. NewId \in MemId /\ vers[NewId] = <<>> /\ Len(vers[NewId]) = 0
  BY NewIdFresh DEF Inserted
<1>2. s \in Snapshots /\ s.version = 1
  BY DEF FirstVersion, Snapshots
<1>3. Record("create", [o \in {} |-> 0], One(NewId, s))
  BY DEF Inserted
<1> HIDE DEF s
<1>4. One(NewId, s) \in SnapMaps /\ DOMAIN One(NewId, s) = {NewId} /\ One(NewId, s)[NewId] = s
  BY <1>1, <1>2, OneIs
<1>5. PICK a \in SnapMaps, b \in SnapMaps : a = One(NewId, s) /\ b = [o \in {} |-> 0]
  BY <1>4, NoneIs
<1>6. \A m \in DOMAIN a : a[m].version = Len(vers[m]) + 1 /\ (vers[m] # <<>> => b[m] = Last(vers[m]))
  BY <1>1, <1>2, <1>4, <1>5
<1>7. Record("create", b, a)
  BY <1>3, <1>5
<1>8. PICK c : Makes(c) /\ c.kind = "create" /\ c.before = b /\ c.after = a /\ chg' = Append(chg, c)
  BY <1>6, <1>7, RecordIs
<1> QED
  BY <1>4, <1>5, <1>8 DEF s

(* One memory gets a new version, if it is still what it was seen as.          *)
LEMMA RevisedIs ==
  ASSUME History, NEW m \in MemId, NEW before \in SnapMaps, UnchangedSince(m, before[m]),
         NEW s \in Snapshots, s.version = before[m].version + 1,
         NEW kind \in {"create", "edit", "delete", "restore", "automatic_sources", "automatic_update"},
         Record(kind, before, One(m, s))
  PROVE  \E c : Makes(c) /\ c.kind # "merge" /\ chg' = Append(chg, c)
<1>1. vers[m] # <<>> /\ before[m] = Last(vers[m]) /\ before[m].version = Len(vers[m])
  BY StillIs
<1>2. One(m, s) \in SnapMaps /\ DOMAIN One(m, s) = {m} /\ One(m, s)[m] = s
  BY OneIs
<1>3. PICK a \in SnapMaps : a = One(m, s)
  BY <1>2
<1>4. \A o \in DOMAIN a : a[o].version = Len(vers[o]) + 1 /\ (vers[o] # <<>> => before[o] = Last(vers[o]))
  BY <1>1, <1>2, <1>3
<1>5. PICK c : Makes(c) /\ c.kind = kind /\ chg' = Append(chg, c)
  BY <1>3, <1>4, RecordIs
<1> QED
  BY <1>5

LEMMA CreateMemoryKeeps ==
  ASSUME MemInv, NEW s \in MemScope, NEW x \in Text, CreateMemory(s, x)
  PROVE  MemInv'
<1>1. Inserted(s, x) /\ UNCHANGED <<plan, lock, wr, auto>>
  BY DEF CreateMemory
<1>2. \E c : Makes(c) /\ c.kind # "merge" /\ chg' = Append(chg, c)
  BY <1>1, InsertedIs DEF MemInv
<1>3. History' /\ Plans' /\ Older
  BY <1>1, <1>2, MadeKeeps
<1> QED
  BY <1>1, <1>3, WritersRest DEF MemInv

LEMMA OpenMemoryKeeps ==
  ASSUME MemInv, NEW w \in Writer, NEW m \in MemId, OpenMemory(w, m)
  PROVE  MemInv'
<1>1. /\ Live(m) /\ wr' = [wr EXCEPT ![w].pc = "open", ![w].id = m, ![w].seen = One(m, Snap(mem[m]))]
      /\ UNCHANGED <<mem, vers, chg, plan, lock, auto>>
  BY DEF OpenMemory
<1>2. PICK p \in SnapMaps : p = One(m, Snap(mem[m]))
  BY <1>1, SnapIs, OneIs DEF MemInv
<1>3. PICK r : r = [wr[w] EXCEPT !.pc = "open", !.id = m, !.seen = p]
  OBVIOUS
<1>4. wr[w] \in WriterRec /\ m \in 0 .. MaxMem
  BY DEF MemInv, Writers, MemId
<1>5. r \in WriterRec /\ r.pc = "open" /\ r.id = m /\ r.seen = p
  BY <1>3, <1>4 DEF WriterRec
<1>6. wr' = [wr EXCEPT ![w] = r]
  BY <1>1, <1>2, <1>3 DEF MemInv, Writers
<1>7. /\ lock' \in [MemScope -> Writer \cup {Unheld}]
      /\ \A v \in Writer : v # w /\ wr[v].pc \in {"look", "decide"} => lock'[wr[v].scope] = v
  BY <1>1 DEF MemInv, Writers, WriterGood
<1>8. History' /\ Plans' /\ Older
  BY <1>1, RestKeeps
<1>9. Writers
  BY DEF MemInv
<1> QED
  BY <1>1, <1>5, <1>6, <1>7, <1>8, <1>9, WriterTo DEF MemInv

LEMMA EditsKeep ==
  ASSUME MemInv, NEW w \in Writer,
         \/ \E s \in MemScope, x \in Text : UpdateMemory(w, s, x)
         \/ DeleteMemory(w)
         \/ WriterAt(w, "open") /\ \E v \in DOMAIN vers[wr[w].id] : Restore(w, v)
  PROVE  MemInv'
<1> DEFINE m == wr[w].id
           b == wr[w].seen
<1>1. m \in MemId /\ b \in SnapMaps
  <2>1. wr[w].pc = "open"
    BY DEF UpdateMemory, DeleteMemory, Restore, WriterAt
  <2> QED
    BY <2>1 DEF MemInv, Writers, WriterGood
<1>2. UNCHANGED <<plan, lock, auto>> /\ WriterDone(w)
  BY DEF UpdateMemory, DeleteMemory, Restore, Conflict
<1>3. \/ UNCHANGED <<mem, vers, chg>>
      \/ UnchangedSince(m, b[m]) /\ \E s \in MemScope, x \in Text : Record("edit", b, One(m, Rewritten(b[m], s, x)))
      \/ UnchangedSince(m, b[m]) /\ Record("delete", b, One(m, Removed(b[m])))
      \/ UnchangedSince(m, b[m]) /\ \E v \in DOMAIN vers[m] :
           Record("restore", b, One(m, Rewritten(b[m], vers[m][v].scope, vers[m][v].content)))
  BY DEF UpdateMemory, DeleteMemory, Restore, Conflict
<1> HIDE DEF m, b
<1>4. History' /\ Plans' /\ Older
  <2>0. History
    BY DEF MemInv
  <2>1. CASE UNCHANGED <<mem, vers, chg>>
    BY <1>2, <2>1, RestKeeps
  <2>2. ASSUME UnchangedSince(m, b[m]), NEW s \in MemScope, NEW x \in Text,
               Record("edit", b, One(m, Rewritten(b[m], s, x)))
        PROVE  History' /\ Plans' /\ Older
    <3>1. b[m] \in Snapshots
      BY <1>1, <2>0, <2>2, StillIs
    <3>2. PICK n \in Snapshots : n = Rewritten(b[m], s, x) /\ n.version = b[m].version + 1
      BY <3>1, Becomes
    <3>3. \E c : Makes(c) /\ c.kind # "merge" /\ chg' = Append(chg, c)
      BY <1>1, <2>0, <2>2, <3>2, RevisedIs
    <3> QED
      BY <1>2, <3>3, MadeKeeps
  <2>3. ASSUME UnchangedSince(m, b[m]), Record("delete", b, One(m, Removed(b[m])))
        PROVE  History' /\ Plans' /\ Older
    <3>1. b[m] \in Snapshots
      BY <1>1, <2>0, <2>3, StillIs
    <3>2. PICK n \in Snapshots : n = Removed(b[m]) /\ n.version = b[m].version + 1
      <4>1. b[m].scope \in MemScope /\ b[m].content \in Text
        BY <3>1 DEF Snapshots
      <4> QED
        BY <3>1, <4>1, Becomes
    <3>3. \E c : Makes(c) /\ c.kind # "merge" /\ chg' = Append(chg, c)
      BY <1>1, <2>0, <2>3, <3>2, RevisedIs
    <3> QED
      BY <1>2, <3>3, MadeKeeps
  <2>4. ASSUME UnchangedSince(m, b[m]), NEW v \in DOMAIN vers[m],
               Record("restore", b, One(m, Rewritten(b[m], vers[m][v].scope, vers[m][v].content)))
        PROVE  History' /\ Plans' /\ Older
    <3>1. b[m] \in Snapshots
      BY <1>1, <2>0, <2>4, StillIs
    <3>2. vers[m][v].scope \in MemScope /\ vers[m][v].content \in Text
      BY <1>1, <2>0, VersionsAre DEF Snapshots
    <3>3. PICK n \in Snapshots : n = Rewritten(b[m], vers[m][v].scope, vers[m][v].content)
                                 /\ n.version = b[m].version + 1
      BY <3>1, <3>2, Becomes
    <3>4. \E c : Makes(c) /\ c.kind # "merge" /\ chg' = Append(chg, c)
      BY <1>1, <2>0, <2>4, <3>3, RevisedIs
    <3> QED
      BY <1>2, <3>4, MadeKeeps
  <2> QED
    BY <1>3, <2>1, <2>2, <2>3, <2>4
<1>5. Writers'
  BY <1>2, <1>4, DoneKeeps DEF MemInv
<1> QED
  BY <1>4, <1>5 DEF MemInv

LEMMA DeleteMemoriesKeeps ==
  ASSUME MemInv, NEW S \in SUBSET MemId, DeleteMemories(S)
  PROVE  MemInv'
<1> DEFINE b == [m \in S |-> Snap(mem[m])]
           a == [m \in S |-> Removed(b[m])]
<1>1. Record("delete", b, a) /\ UNCHANGED <<plan, lock, wr, auto>> /\ \A m \in S : Live(m)
  BY DEF DeleteMemories
<1>2. ASSUME NEW m \in S
      PROVE  /\ b[m] \in Snapshots /\ a[m] \in Snapshots /\ a[m].version = Len(vers[m]) + 1 /\ b[m] = Last(vers[m])
  <2>1. Snap(mem[m]) \in Snapshots /\ Snap(mem[m]).version = Len(vers[m]) /\ Snap(mem[m]) = Last(vers[m])
    BY <1>1, SnapIs DEF MemInv
  <2>2. Snap(mem[m]).scope \in MemScope /\ Snap(mem[m]).content \in Text
    BY <2>1 DEF Snapshots
  <2> QED
    BY <2>1, <2>2, Becomes
<1>3. b \in [S -> Snapshots] /\ a \in [S -> Snapshots] /\ DOMAIN a = S
  BY <1>2
<1> HIDE DEF a, b
<1>4. b \in SnapMaps /\ a \in SnapMaps
  BY <1>3, PartialIs
<1>5. \E c : Makes(c) /\ c.kind # "merge" /\ chg' = Append(chg, c)
  <2>1. \A m \in DOMAIN a : a[m].version = Len(vers[m]) + 1 /\ (vers[m] # <<>> => b[m] = Last(vers[m]))
    BY <1>2, <1>3
  <2>2. PICK c : Makes(c) /\ c.kind = "delete" /\ chg' = Append(chg, c)
    BY <1>1, <1>4, <2>1, RecordIs
  <2> QED
    BY <2>2
<1>6. History' /\ Plans' /\ Older
  BY <1>1, <1>5, MadeKeeps
<1> QED
  BY <1>1, <1>6, WritersRest DEF MemInv


-----------------------------------------------------------------------------
(* The automatic writers.                                                      *)

LEMMA StartWriteKeeps ==
  ASSUME MemInv, NEW w \in Writer, NEW s \in MemScope, NEW x \in Text, StartWrite(w, s, x)
  PROVE  MemInv'
<1>1. /\ wr[w].pc = "new" /\ wr' = [wr EXCEPT ![w].pc = "lock", ![w].scope = s, ![w].content = x]
      /\ UNCHANGED <<mem, vers, chg, plan, lock, auto>>
  BY DEF StartWrite, WriterAt
<1>2. PICK r : r = [wr[w] EXCEPT !.pc = "lock", !.scope = s, !.content = x]
  OBVIOUS
<1>3. wr[w] \in WriterRec
  BY DEF MemInv, Writers
<1>4. r \in WriterRec /\ r.pc = "lock" /\ r.scope = s /\ r.content = x
  BY <1>2, <1>3 DEF WriterRec
<1>5. wr' = [wr EXCEPT ![w] = r]
  BY <1>1, <1>2 DEF MemInv, Writers
<1>6. /\ lock' \in [MemScope -> Writer \cup {Unheld}]
      /\ \A v \in Writer : v # w /\ wr[v].pc \in {"look", "decide"} => lock'[wr[v].scope] = v
  BY <1>1 DEF MemInv, Writers, WriterGood
<1>7. History' /\ Plans' /\ Older
  BY <1>1, RestKeeps
<1> QED
  BY <1>1, <1>4, <1>5, <1>6, <1>7, WriterTo DEF MemInv

LEMMA LockScopeKeeps ==
  ASSUME MemInv, NEW w \in Writer, LockScope(w)
  PROVE  MemInv'
<1>1. /\ wr[w].pc = "lock" /\ lock[wr[w].scope] = Unheld /\ lock' = [lock EXCEPT ![wr[w].scope] = w]
      /\ wr' = [wr EXCEPT ![w].pc = "look"] /\ UNCHANGED <<mem, vers, chg, plan, auto>>
  BY DEF LockScope, WriterAt, Free
<1>2. PICK r : r = [wr[w] EXCEPT !.pc = "look"]
  OBVIOUS
<1>3. wr[w] \in WriterRec /\ wr[w].scope \in MemScope /\ wr[w].content \in Text
  BY <1>1 DEF MemInv, Writers, WriterGood
<1>4. r \in WriterRec /\ r.pc = "look" /\ r.scope = wr[w].scope /\ r.content = wr[w].content
  BY <1>2, <1>3 DEF WriterRec
<1>5. wr' = [wr EXCEPT ![w] = r]
  BY <1>1, <1>2 DEF MemInv, Writers
<1>6. /\ lock' \in [MemScope -> Writer \cup {Unheld}] /\ lock'[r.scope] = w
      /\ \A s \in MemScope : s # wr[w].scope => lock'[s] = lock[s]
  BY <1>1, <1>3, <1>4 DEF MemInv, Writers
<1>7. ASSUME NEW v \in Writer, v # w, wr[v].pc \in {"look", "decide"} PROVE lock'[wr[v].scope] = v
  <2>1. wr[v].scope \in MemScope /\ lock[wr[v].scope] = v /\ v # Unheld
    BY <1>7, MemoryAssumption DEF MemInv, Writers, WriterGood, Unheld
  <2> QED
    BY <1>1, <1>6, <2>1
<1>8. History' /\ Plans' /\ Older
  BY <1>1, RestKeeps
<1>9. Writers /\ auto' = auto
  BY <1>1 DEF MemInv
<1>10. \A v \in Writer : v # w /\ wr[v].pc \in {"look", "decide"} => lock'[wr[v].scope] = v
  BY <1>7
<1>11. r.scope \in MemScope /\ r.content \in Text
  BY <1>3, <1>4
<1>12. Writers'
  BY <1>4, <1>5, <1>6, <1>8, <1>9, <1>10, <1>11, WriterTo
<1> QED
  BY <1>8, <1>12 DEF MemInv

LEMMA LettingGo ==
  ASSUME MemInv, NEW w \in Writer, WriterFails(w) \/ DecideSkip(w)
  PROVE  MemInv'
<1>1. UNCHANGED <<mem, vers, chg, plan, auto>> /\ WriterDone(w)
  BY DEF WriterFails, DecideSkip, Unlock
<1>2. \/ wr[w].pc \in {"look", "decide"} /\ lock' = [lock EXCEPT ![wr[w].scope] = Unheld]
      \/ lock' = [s \in MemScope |-> IF lock[s] = w THEN Unheld ELSE lock[s]]
  BY DEF WriterFails, DecideSkip, Unlock, WriterAt
<1>3. History' /\ Plans' /\ Older
  BY <1>1, RestKeeps
<1>4. Writers'
  BY <1>1, <1>2, <1>3, DoneKeeps DEF MemInv
<1> QED
  BY <1>3, <1>4 DEF MemInv

(* What a writer adds is told by no memory of its kind.                        *)
LEMMA InsertKeeps ==
  ASSUME MemInv, NEW w \in Writer, wr[w].pc \in {"look", "decide"}, Insert(w), plan' = plan,
         \A o \in auto : ~First(o, wr[w].scope, wr[w].content)
  PROVE  MemInv'
<1>1. PICK s, x, id : s = wr[w].scope /\ x = wr[w].content /\ id = NewId
  OBVIOUS
<1>2. s \in MemScope /\ x \in Text /\ lock[s] = w /\ \A o \in auto : ~First(o, s, x)
  BY <1>1 DEF MemInv, Writers, WriterGood
<1>3. Inserted(s, x) /\ auto' = auto \cup {id} /\ lock' = [lock EXCEPT ![s] = Unheld] /\ wr' = [wr EXCEPT ![w] = OverIs]
  BY <1>1 DEF Insert, Unlock, WriterDone, OverIs
<1>4. PICK c : Makes(c) /\ c.kind = "create" /\ chg' = Append(chg, c)
               /\ DOMAIN c.after = {id} /\ c.after[id] = FirstVersion(s, x)
  BY <1>1, <1>2, <1>3, InsertedIs DEF MemInv
<1>5. History' /\ Plans' /\ Older
  BY <1>4, MadeKeeps
<1>6. id \in MemId /\ vers'[id] # <<>> /\ mem'[id] = Row(FirstVersion(s, x))
  <2>1. id \in MemId
    BY <1>4, ChangeHas DEF Makes
  <2> QED
    BY <1>4, <2>1, MadeVersions DEF MemInv
<1>7. ASSUME NEW sc, NEW xx, First(id, sc, xx)' PROVE sc = s /\ xx = x
  BY <1>6, <1>7 DEF First, Row, FirstVersion
<1>8. wr' \in [Writer -> WriterRec] /\ wr'[w] = OverIs /\ \A v \in Writer : v # w => wr'[v] = wr[v]
  BY <1>3, Done DEF MemInv, Writers
<1>9. lock' \in [MemScope -> Writer \cup {Unheld}] /\ \A sc \in MemScope : sc # s => lock'[sc] = lock[sc]
  BY <1>3 DEF MemInv, Writers
<1>10. ASSUME NEW v \in Writer PROVE WriterGood(v)'
  <2>1. CASE v = w
    BY <1>8, <2>1, Done DEF WriterGood
  <2>2. CASE v # w
    <3>0. PICK sv, xv : sv = wr[v].scope /\ xv = wr[v].content
      OBVIOUS
    <3>1. wr'[v] = wr[v] /\ WriterGood(v)
      BY <1>8, <2>2 DEF MemInv, Writers
    <3>2. wr[v].pc \in {"look", "decide"} => sv \in MemScope /\ sv # s /\ lock'[sv] = v
      BY <1>2, <1>9, <2>2, <3>0, <3>1 DEF WriterGood
    <3>3. ASSUME wr[v].pc = "decide", NEW o \in auto \cup {id} PROVE ~First(o, sv, xv)'
      <4>1. sv \in MemScope /\ xv \in Text /\ sv # s /\ \A q \in auto : ~First(q, sv, xv)
        BY <3>0, <3>1, <3>2, <3>3 DEF WriterGood
      <4>2. CASE o \in auto
        BY <1>5, <4>1, <4>2 DEF Older
      <4>3. CASE o = id
        <5>1. ~First(id, sv, xv)'
          BY <1>7, <4>1
        <5> QED
          BY <4>3, <5>1 DEF First, Live
      <4> QED
        BY <3>3, <4>2, <4>3
    <3>4. wr[v].pc = "decide" => \A o \in auto' : ~First(o, sv, xv)'
      BY <1>3, <3>3
    <3> QED
      BY <3>0, <3>1, <3>2, <3>4 DEF WriterGood, First, Live
  <2> QED
    BY <2>1, <2>2
<1>11. auto' \subseteq MemId /\ \A m \in auto' : vers'[m] # <<>>
  BY <1>3, <1>5, <1>6 DEF MemInv, Writers, Older
<1>12. ASSUME NEW m \in auto \cup {id}, NEW o \in auto \cup {id}, m # o, NEW sc \in MemScope, NEW xx \in Text
       PROVE  ~(First(m, sc, xx) /\ First(o, sc, xx))'
  <2>1. \A q \in auto : First(q, sc, xx)' => First(q, sc, xx)
    BY <1>5 DEF Older
  <2>2. CASE m \in auto /\ o \in auto
    BY <1>12, <2>1, <2>2 DEF MemInv, Writers
  <2>3. ASSUME NEW q \in auto, First(id, sc, xx)', First(q, sc, xx)' PROVE FALSE
    <3>1. sc = s /\ xx = x
      BY <1>7, <2>3
    <3> QED
      BY <1>2, <2>1, <2>3, <3>1
  <2>4. CASE m = id /\ o \in auto
    <3>1. First(m, sc, xx)' => First(id, sc, xx)'
      BY <2>4 DEF First, Live
    <3> QED
      BY <2>3, <2>4, <3>1
  <2>5. CASE o = id /\ m \in auto
    <3>1. First(o, sc, xx)' => First(id, sc, xx)'
      BY <2>5 DEF First, Live
    <3> QED
      BY <2>3, <2>5, <3>1
  <2> QED
    BY <1>12, <2>2, <2>4, <2>5
<1>13. Writers'
  <2>1. \A m, o \in auto' : m # o => \A sc \in MemScope, xx \in Text : ~(First(m, sc, xx) /\ First(o, sc, xx))'
    BY <1>3, <1>12
  <2> QED
    BY <1>8, <1>9, <1>10, <1>11, <2>1 DEF Writers, First, Live
<1> QED
  BY <1>5, <1>13 DEF MemInv

LEMMA LookKeeps ==
  ASSUME MemInv, NEW w \in Writer, Look(w)
  PROVE  MemInv'
<1>1. wr[w].pc = "look" /\ plan' = plan /\ wr[w].scope \in MemScope /\ wr[w].content \in Text /\ lock[wr[w].scope] = w
  BY DEF Look, WriterAt, MemInv, Writers, WriterGood
<1>2. ASSUME Exact(w) # {} PROVE MemInv'
  <2>1. WriterDone(w) /\ lock' = [lock EXCEPT ![wr[w].scope] = Unheld] /\ auto' = auto
    BY <1>2 DEF Look, Unlock
  <2>2. History' /\ Plans' /\ Older
    <3>1. CASE UNCHANGED <<mem, vers, chg>>
      BY <1>1, <3>1, RestKeeps
    <3>2. ASSUME NEW m \in Exact(w),
                 Record("automatic_sources", One(m, Snap(mem[m])),
                        One(m, Rewritten(Snap(mem[m]), Snap(mem[m]).scope, Snap(mem[m]).content)))
          PROVE  History' /\ Plans' /\ Older
      <4>1. m \in MemId /\ Live(m) /\ History
        BY DEF Exact, InScope, MemInv
      <4>2. PICK s \in Snapshots : s = Snap(mem[m])
        BY <4>1, SnapIs
      <4>3. UnchangedSince(m, s) /\ One(m, s) \in SnapMaps /\ One(m, s)[m] = s
        BY <4>1, <4>2, OneIs DEF UnchangedSince
      <4>4. s.scope \in MemScope /\ s.content \in Text
        BY DEF Snapshots
      <4>5. PICK n \in Snapshots : n = Rewritten(s, s.scope, s.content) /\ n.version = s.version + 1
        BY <4>4, Becomes
      <4>6. PICK b \in SnapMaps : b = One(m, s)
        BY <4>3
      <4>7. Record("automatic_sources", b, One(m, n)) /\ UnchangedSince(m, b[m]) /\ n.version = b[m].version + 1
        BY <3>2, <4>2, <4>3, <4>5, <4>6
      <4>8. \E c : Makes(c) /\ c.kind # "merge" /\ chg' = Append(chg, c)
        BY <4>1, <4>7, RevisedIs
      <4> QED
        BY <1>1, <4>8, MadeKeeps
    <3> QED
      BY <1>2, <3>1, <3>2 DEF Look
  <2>3. Writers'
    BY <1>1, <2>1, <2>2, DoneKeeps DEF MemInv
  <2> QED
    BY <2>2, <2>3 DEF MemInv
<1>3. ASSUME Exact(w) = {}, InScope(w) = {} PROVE MemInv'
  <2>1. \A o \in auto : ~First(o, wr[w].scope, wr[w].content)
    BY <1>3 DEF MemInv, Writers, InScope, First
  <2> QED
    BY <1>1, <1>3, <2>1, InsertKeeps DEF Look
<1>4. ASSUME Exact(w) = {}, InScope(w) # {} PROVE MemInv'
  <2> DEFINE f == [m \in InScope(w) |-> Snap(mem[m])]
  <2>1. wr' = [wr EXCEPT ![w].pc = "decide", ![w].seen = f] /\ UNCHANGED <<mem, vers, chg, lock, auto>>
    BY <1>4 DEF Look
  <2>2. f \in SnapMaps
    <3>1. \A m \in InScope(w) : Snap(mem[m]) \in Snapshots /\ m \in MemId
      BY SnapIs DEF InScope, MemInv
    <3>2. f \in [InScope(w) -> Snapshots] /\ InScope(w) \in SUBSET MemId
      BY <3>1
    <3> HIDE DEF f
    <3> QED
      BY <3>2, PartialIs
  <2> HIDE DEF f
  <2>3. PICK r : r = [wr[w] EXCEPT !.pc = "decide", !.seen = f]
    OBVIOUS
  <2>4. wr[w] \in WriterRec
    BY DEF MemInv, Writers
  <2>5. r \in WriterRec /\ r.pc = "decide" /\ r.scope = wr[w].scope /\ r.content = wr[w].content /\ r.seen = f
    BY <2>2, <2>3, <2>4 DEF WriterRec
  <2>6. wr' = [wr EXCEPT ![w] = r]
    BY <2>1, <2>3 DEF MemInv, Writers
  <2>7. \A o \in auto : ~First(o, wr[w].scope, wr[w].content)
    BY <1>4 DEF Exact, InScope, First, MemInv, Writers
  <2>8. History' /\ Plans' /\ Older
    BY <1>1, <2>1, RestKeeps
  <2>9. /\ lock' \in [MemScope -> Writer \cup {Unheld}] /\ lock'[r.scope] = w
        /\ \A v \in Writer : v # w /\ wr[v].pc \in {"look", "decide"} => lock'[wr[v].scope] = v
    BY <1>1, <2>1, <2>5 DEF MemInv, Writers, WriterGood
  <2>10. Writers /\ auto' = auto
    BY <2>1 DEF MemInv
  <2>11. r.scope \in MemScope /\ r.content \in Text /\ r.seen \in SnapMaps /\ \A o \in auto : ~First(o, r.scope, r.content)
    BY <1>1, <2>2, <2>5, <2>7
  <2>12. Writers'
    BY <2>5, <2>6, <2>8, <2>9, <2>10, <2>11, WriterTo
  <2> QED
    BY <2>8, <2>12 DEF MemInv
<1> QED
  BY <1>2, <1>3, <1>4

LEMMA DecideCreateKeeps ==
  ASSUME MemInv, NEW w \in Writer, DecideCreate(w)
  PROVE  MemInv'
<1>1. wr[w].pc = "decide" /\ Insert(w) /\ plan' = plan
  BY DEF DecideCreate, WriterAt
<1>2. \A o \in auto : ~First(o, wr[w].scope, wr[w].content)
  BY <1>1 DEF MemInv, Writers, WriterGood
<1> QED
  BY <1>1, <1>2, InsertKeeps

LEMMA DecideUpdateKeeps ==
  ASSUME MemInv, NEW w \in Writer, NEW m \in MemId, NEW x \in Text, DecideUpdate(w, m, x)
  PROVE  MemInv'
<1>1. /\ wr[w].pc = "decide" /\ m \in DOMAIN wr[w].seen /\ UNCHANGED <<plan, auto>>
      /\ WriterDone(w) /\ lock' = [lock EXCEPT ![wr[w].scope] = Unheld]
  BY DEF DecideUpdate, WriterAt, Unlock
<1>2. PICK s : s = wr[w].seen[m]
  OBVIOUS
<1>3. s \in Snapshots
  <2>1. wr[w].seen \in SnapMaps
    BY <1>1 DEF MemInv, Writers, WriterGood
  <2> QED
    BY <1>1, <1>2, <2>1, PartialHas
<1>4. History' /\ Plans' /\ Older
  <2>1. CASE UNCHANGED <<mem, vers, chg>>
    BY <1>1, <2>1, RestKeeps
  <2>2. CASE UnchangedSince(m, s) /\ Record("automatic_update", One(m, s), One(m, Rewritten(s, s.scope, x)))
    <3>1. One(m, s) \in SnapMaps /\ One(m, s)[m] = s
      BY <1>3, OneIs
    <3>2. s.scope \in MemScope
      BY <1>3 DEF Snapshots
    <3>3. PICK n \in Snapshots : n = Rewritten(s, s.scope, x) /\ n.version = s.version + 1
      BY <1>3, <3>2, Becomes
    <3>4. PICK b \in SnapMaps : b = One(m, s)
      BY <3>1
    <3>5. Record("automatic_update", b, One(m, n)) /\ UnchangedSince(m, b[m]) /\ n.version = b[m].version + 1
      BY <2>2, <3>1, <3>3, <3>4
    <3>6. History
      BY DEF MemInv
    <3>7. \E c : Makes(c) /\ c.kind # "merge" /\ chg' = Append(chg, c)
      BY <3>5, <3>6, RevisedIs
    <3> QED
      BY <1>1, <3>7, MadeKeeps
  <2> QED
    BY <1>2, <2>1, <2>2 DEF DecideUpdate
<1>5. Writers'
  BY <1>1, <1>4, DoneKeeps DEF MemInv
<1> QED
  BY <1>4, <1>5 DEF MemInv

-----------------------------------------------------------------------------
(* Plans, undoing, and the day.                                                *)

LEMMA PreviewKeeps ==
  ASSUME MemInv, NEW S \in SUBSET MemId, Preview(S)
  PROVE  MemInv'
<1> DEFINE f == [m \in S |-> Snap(mem[m])]
<1>1. UNCHANGED <<mem, vers, chg, lock, wr, auto>> /\ plan' = plan \cup {[seen |-> f, applied |-> 0]}
  BY DEF Preview
<1>2. ASSUME NEW m \in S PROVE f[m] \in Snapshots /\ f[m].exists
  <2>1. Live(m) /\ m \in MemId
    BY DEF Preview
  <2> QED
    BY <2>1, SnapIs DEF MemInv
<1>3. f \in [S -> Snapshots] /\ DOMAIN f = S
  BY <1>2
<1> HIDE DEF f
<1>4. f \in SnapMaps
  BY <1>3, PartialIs
<1>5. PICK p : p = [seen |-> f, applied |-> 0]
  OBVIOUS
<1>6. p \in PlanRec /\ p.seen = f /\ p.applied = 0
  BY <1>4, <1>5 DEF PlanRec
<1>7. History' /\ Older
  BY <1>1, HistoryRests, RestOlder DEF MemInv
<1>8. Plans'
  <2>1. plan' = plan \cup {p}
    BY <1>1, <1>5
  <2>2. Plans
    BY DEF MemInv
  <2>3. ASSUME NEW q \in plan'
        PROVE  /\ q \in PlanRec /\ \A m \in DOMAIN q.seen : q.seen[m].exists
               /\ q.applied # 0 => /\ q.applied \in DOMAIN chg /\ chg[q.applied].kind = "merge"
                                   /\ chg[q.applied].before = q.seen
                                   /\ \A i \in DOMAIN chg \ {q.applied} :
                                        chg[i].kind = "merge" => chg[i].before # q.seen
    <3>1. CASE q \in plan
      BY <2>2, <3>1 DEF Plans, MergedAsShown
    <3>2. CASE q = p
      BY <1>2, <1>3, <1>6, <3>2
    <3> QED
      BY <2>1, <3>1, <3>2
  <2> QED
    BY <1>1, <2>3 DEF Plans, MergedAsShown
<1> QED
  BY <1>1, <1>7, <1>8, WritersRest DEF MemInv

(* No plan was merged of states that are the last ones.                        *)
LEMMA NotMergedYet ==
  ASSUME History, NEW i \in DOMAIN chg, chg[i].kind = "merge", NEW f, \A m \in DOMAIN f : f[m].version = Len(vers[m])
  PROVE  chg[i].before # f
<1>1. chg[i] \in ChangeRec /\ ChangeGood(chg[i])
  BY Changed
<1>2. PICK m \in DOMAIN chg[i].before : chg[i].before[m].version < Len(vers[m])
  BY <1>1 DEF ChangeGood
<1>3. m \in MemId
  BY <1>1, ChangeHas
<1>4. Len(vers[m]) \in Nat
  BY <1>3, VersionsAre
<1> QED
  BY <1>2, <1>4

LEMMA MergeKeeps ==
  ASSUME MemInv, NEW p \in plan, NEW target \in MemId, NEW content \in Text, Merge(p, target, content)
  PROVE  MemInv'
<1> DEFINE a == [m \in DOMAIN p.seen |->
                   IF m = target THEN Rewritten(p.seen[m], p.seen[m].scope, content) ELSE Removed(p.seen[m])]
<1>1. /\ p.applied = 0 /\ target \in DOMAIN p.seen /\ Record("merge", p.seen, a)
      /\ plan' = (plan \ {p}) \cup {[p EXCEPT !.applied = Len(chg) + 1]} /\ UNCHANGED <<lock, wr, auto>>
      /\ \A m \in DOMAIN p.seen : Matches(m, p.seen[m])
  BY DEF Merge
<1>2. History /\ Plans /\ Writers /\ p \in PlanRec /\ p.seen \in SnapMaps /\ \A m \in DOMAIN p.seen : p.seen[m].exists
  BY DEF MemInv, Plans, PlanRec
<1>3. ASSUME NEW m \in DOMAIN p.seen
      PROVE  /\ m \in MemId /\ p.seen[m] \in Snapshots /\ p.seen[m] = Last(vers[m]) /\ p.seen[m].version = Len(vers[m])
             /\ a[m] \in Snapshots /\ a[m].version = Len(vers[m]) + 1
  <2>1. m \in MemId /\ UnchangedSince(m, p.seen[m])
    BY <1>1, <1>2, PartialHas DEF Matches
  <2>2. p.seen[m] \in Snapshots /\ p.seen[m] = Last(vers[m]) /\ p.seen[m].version = Len(vers[m])
    BY <1>2, <2>1, StillIs
  <2>3. p.seen[m].scope \in MemScope
    BY <2>2 DEF Snapshots
  <2>4. /\ Rewritten(p.seen[m], p.seen[m].scope, content) \in Snapshots /\ Removed(p.seen[m]) \in Snapshots
        /\ Rewritten(p.seen[m], p.seen[m].scope, content).version = Len(vers[m]) + 1
        /\ Removed(p.seen[m]).version = Len(vers[m]) + 1
    BY <2>2, <2>3, Becomes
  <2> QED
    BY <2>1, <2>2, <2>4
<1>4. a \in [DOMAIN p.seen -> Snapshots] /\ DOMAIN a = DOMAIN p.seen
  BY <1>3
<1> HIDE DEF a
<1>5. a \in SnapMaps
  BY <1>2, <1>4, PartialHas, PartialIs
<1>6. PICK c : Makes(c) /\ c.kind = "merge" /\ c.before = p.seen /\ c.after = a /\ chg' = Append(chg, c)
  <2>1. \A m \in DOMAIN a : a[m].version = Len(vers[m]) + 1 /\ (vers[m] # <<>> => p.seen[m] = Last(vers[m]))
    BY <1>3, <1>4
  <2>2. DOMAIN p.seen # {} /\ \A m \in DOMAIN p.seen : m \in DOMAIN a /\ p.seen[m].version = Len(vers[m])
    BY <1>1, <1>3, <1>4
  <2>3. PICK b \in SnapMaps : b = p.seen
    BY <1>2
  <2>4. /\ Record("merge", b, a)
        /\ \A m \in DOMAIN a : a[m].version = Len(vers[m]) + 1 /\ (vers[m] # <<>> => b[m] = Last(vers[m]))
        /\ DOMAIN b # {} /\ \A m \in DOMAIN b : m \in DOMAIN a /\ b[m].version = Len(vers[m])
    BY <1>1, <2>1, <2>2, <2>3
  <2> QED
    BY <1>5, <2>3, <2>4, RecordIs
<1>7. /\ History' /\ Len(chg) \in Nat /\ DOMAIN chg' = 1 .. Len(chg) + 1 /\ DOMAIN chg = 1 .. Len(chg)
      /\ chg'[Len(chg) + 1] = c /\ \A i \in 1 .. Len(chg) : chg'[i] = chg[i]
  BY <1>2, <1>6, RecordKeeps
<1>8. Plans'
  <2>1. PICK n : n = Len(chg) + 1
    OBVIOUS
  <2>2. PICK r : r = [p EXCEPT !.applied = n]
    OBVIOUS
  <2>3. r \in PlanRec /\ r.seen = p.seen /\ r.applied = n /\ n \in Nat \ {0} /\ n \in DOMAIN chg'
    BY <1>2, <1>7, <2>1, <2>2 DEF PlanRec
  <2>4. plan' = (plan \ {p}) \cup {r}
    BY <1>1, <2>1, <2>2
  <2>5. ASSUME NEW q \in plan'
        PROVE  /\ q \in PlanRec /\ \A m \in DOMAIN q.seen : q.seen[m].exists
               /\ q.applied # 0 => /\ q.applied \in DOMAIN chg' /\ chg'[q.applied].kind = "merge"
                                   /\ chg'[q.applied].before = q.seen
                                   /\ \A i \in DOMAIN chg' \ {q.applied} :
                                        chg'[i].kind = "merge" => chg'[i].before # q.seen
    <3>1. CASE q \in plan
      <4>1. /\ q \in PlanRec /\ \A m \in DOMAIN q.seen : q.seen[m].exists
            /\ q.applied # 0 => /\ q.applied \in 1 .. Len(chg) /\ chg[q.applied].kind = "merge"
                                /\ chg[q.applied].before = q.seen
                                /\ \A i \in 1 .. Len(chg) \ {q.applied} :
                                     chg[i].kind = "merge" => chg[i].before # q.seen
        BY <1>2, <1>7, <3>1 DEF Plans, MergedAsShown
      <4>2. ASSUME q.applied # 0 PROVE chg'[n].before # q.seen
        <5>1. chg[q.applied].before # p.seen
          BY <1>2, <1>3, <1>7, <4>1, <4>2, NotMergedYet
        <5> QED
          BY <1>6, <1>7, <2>1, <4>1, <4>2, <5>1
      <4>3. q.applied # 0 => q.applied \in DOMAIN chg' /\ chg'[q.applied] = chg[q.applied]
        BY <1>7, <4>1
      <4>4. ASSUME q.applied # 0, NEW i \in DOMAIN chg' \ {q.applied}, chg'[i].kind = "merge" PROVE chg'[i].before # q.seen
        <5>1. CASE i = n
          BY <4>2, <4>4, <5>1
        <5>2. CASE i \in 1 .. Len(chg)
          BY <1>7, <4>1, <4>4, <5>2
        <5> QED
          BY <1>7, <2>1, <4>4, <5>1, <5>2
      <4> QED
        BY <4>1, <4>3, <4>4
    <3>2. CASE q = r
      <4>1. chg'[n].kind = "merge" /\ chg'[n].before = p.seen
        BY <1>6, <1>7, <2>1
      <4>2. ASSUME NEW i \in DOMAIN chg' \ {n}, chg'[i].kind = "merge" PROVE chg'[i].before # p.seen
        <5>1. i \in DOMAIN chg /\ chg'[i] = chg[i]
          BY <1>7, <2>1, <4>2
        <5> QED
          BY <1>2, <1>3, <4>2, <5>1, NotMergedYet
      <4> QED
        BY <1>2, <2>3, <3>2, <4>1, <4>2
    <3> QED
      BY <2>4, <3>1, <3>2
  <2> QED
    BY <2>5 DEF Plans, MergedAsShown
<1>9. Older
  BY <1>2, <1>6, MadeOlder
<1> QED
  BY <1>1, <1>2, <1>7, <1>8, <1>9, WritersRest DEF MemInv

(* What comes back is the state before, or nothing, as the next version.       *)
LEMMA RevertedIs ==
  ASSUME NEW c \in ChangeRec, NEW m \in DOMAIN c.after, Len(vers[m]) \in Nat
  PROVE  /\ Reverted(c, m) \in Snapshots /\ Reverted(c, m).version = Len(vers[m]) + 1
         /\ m \in DOMAIN c.before /\ c.before[m].exists
            => [Reverted(c, m) EXCEPT !.version = 0] = [c.before[m] EXCEPT !.version = 0]
<1>1. PICK n : n = Len(vers[m]) + 1 /\ n \in Nat
  OBVIOUS
<1>2. CASE m \in DOMAIN c.before /\ c.before[m].exists
  <2>1. PICK b \in Snapshots : b = c.before[m]
    BY <1>2, ChangeHas
  <2>2. PICK r : r = [b EXCEPT !.version = n]
    OBVIOUS
  <2>3. r \in Snapshots /\ r.version = n
    BY <1>1, <2>2 DEF Snapshots
  <2>4. [r EXCEPT !.version = 0] = [b EXCEPT !.version = 0]
    BY <1>1, <2>2 DEF Snapshots
  <2>5. Reverted(c, m) = r
    BY <1>1, <1>2, <2>1, <2>2 DEF Reverted
  <2> QED
    BY <1>1, <2>1, <2>3, <2>4, <2>5
<1>3. CASE ~(m \in DOMAIN c.before /\ c.before[m].exists)
  <2>1. PICK a \in Snapshots : a = c.after[m]
    BY ChangeHas
  <2>2. PICK r : r = [a EXCEPT !.exists = FALSE, !.version = n]
    OBVIOUS
  <2>3. r \in Snapshots /\ r.version = n
    BY <1>1, <2>2 DEF Snapshots
  <2>4. Reverted(c, m) = r
    BY <1>1, <1>3, <2>1, <2>2 DEF Reverted
  <2> QED
    BY <1>1, <1>3, <2>3, <2>4
<1> QED
  BY <1>2, <1>3

(* That change c is undone says nothing of what it wrote.                      *)
LEMMA UndoneOnly ==
  ASSUME NEW c \in ChangeRec, NEW n \in Nat, NEW d, d = [c EXCEPT !.undone = n]
  PROVE  /\ d \in ChangeRec /\ d.undone = n /\ d.kind = c.kind /\ d.before = c.before /\ d.after = c.after
         /\ ChangeGood(c)' => ChangeGood(d)'
<1>1. d \in ChangeRec /\ d.undone = n /\ d.kind = c.kind /\ d.before = c.before /\ d.after = c.after
  BY DEF ChangeRec
<1> QED
  BY <1>1 DEF ChangeGood

LEMMA UndoMakes ==
  ASSUME MemInv, NEW i \in DOMAIN chg, Undo(i)
  PROVE  \E u : /\ Makes(u) /\ Undoes(u, chg[i]) /\ chg[i].undone = 0
                /\ chg' = Append([chg EXCEPT ![i].undone = Len(chg) + 1], u)
<1>1. PICK c : c = chg[i]
  OBVIOUS
<1>2. History /\ c \in ChangeRec /\ ChangeGood(c)
  BY <1>1, Changed DEF MemInv
<1> DEFINE touched == {m \in DOMAIN c.after : Live(m) \/ (m \in DOMAIN c.before /\ c.before[m].exists)}
           a == [m \in touched |-> Reverted(c, m)]
           u == [kind |-> "undo", before |-> c.after, after |-> a, undone |-> 0]
<1>3. /\ Undoable(c)
      /\ mem' = [m \in MemId |-> IF m \in touched THEN Row(Reverted(c, m)) ELSE mem[m]]
      /\ vers' = [m \in MemId |-> IF m \in touched THEN Append(vers[m], Reverted(c, m)) ELSE vers[m]]
      /\ chg' = Append([chg EXCEPT ![i].undone = Len(chg) + 1], u)
  BY <1>1 DEF Undo
<1>4. ASSUME NEW m \in DOMAIN c.after
      PROVE  /\ m \in MemId /\ Len(vers[m]) \in Nat /\ c.after[m].version = Len(vers[m]) /\ c.after[m] = Last(vers[m])
             /\ Reverted(c, m) \in Snapshots /\ Reverted(c, m).version = Len(vers[m]) + 1
             /\ m \in DOMAIN c.before /\ c.before[m].exists
                => [Reverted(c, m) EXCEPT !.version = 0] = [c.before[m] EXCEPT !.version = 0]
  <2>1. m \in MemId /\ Len(vers[m]) \in Nat /\ Len(vers[m]) = c.after[m].version
    BY <1>2, <1>3, ChangeHas, VersionsAre DEF Undoable, Latest
  <2>2. c.after[m].version \in DOMAIN vers[m] /\ vers[m][c.after[m].version] = c.after[m]
    BY <1>2 DEF ChangeGood
  <2>3. c.after[m] = Last(vers[m])
    BY <2>1, <2>2 DEF Last
  <2> QED
    BY <1>2, <2>1, <2>3, RevertedIs
<1>5. a \in [touched -> Snapshots] /\ DOMAIN a = touched /\ touched \subseteq DOMAIN c.after /\ touched \in SUBSET MemId
  BY <1>4
<1>6. \A m \in touched : a[m] = Reverted(c, m)
  OBVIOUS
<1>13. \A m : m \in touched => m \in DOMAIN c.after
  OBVIOUS
<1> HIDE DEF touched
<1>7. a \in SnapMaps
  BY <1>5, PartialIs
<1> HIDE DEF a
<1>8. u \in ChangeRec /\ u.kind = "undo" /\ u.before = c.after /\ u.after = a /\ u.undone = 0
  BY <1>2, <1>7, ChangeHas DEF ChangeRec
<1> HIDE DEF u
<1>9. mem' = [m \in MemId |-> IF m \in DOMAIN u.after THEN Row(u.after[m]) ELSE mem[m]]
  BY <1>3, <1>5, <1>6, <1>8
<1>10. vers' = [m \in MemId |-> IF m \in DOMAIN u.after THEN Append(vers[m], u.after[m]) ELSE vers[m]]
  BY <1>3, <1>5, <1>6, <1>8
<1>11. Makes(u)
  <2>1. \A m \in DOMAIN u.after : u.after[m].version = Len(vers[m]) + 1 /\ (vers[m] # <<>> => u.before[m] = Last(vers[m]))
    BY <1>4, <1>5, <1>6, <1>8
  <2> QED
    BY <1>8, <1>9, <1>10, <2>1 DEF Makes
<1>12. Undoes(u, c)
  <2>1. \A m \in DOMAIN u.after : u.after[m].version = c.after[m].version + 1
    BY <1>4, <1>5, <1>6, <1>8
  <2>2. \A m \in DOMAIN c.before \cap DOMAIN u.after :
          c.before[m].exists => [u.after[m] EXCEPT !.version = 0] = [c.before[m] EXCEPT !.version = 0]
    BY <1>4, <1>5, <1>6, <1>8
  <2> QED
    BY <1>8, <2>1, <2>2 DEF Undoes
<1> QED
  BY <1>1, <1>3, <1>11, <1>12 DEF Undoable

LEMMA UndoKeeps ==
  ASSUME MemInv, NEW i \in DOMAIN chg, Undo(i)
  PROVE  MemInv'
<1>1. PICK u : /\ Makes(u) /\ Undoes(u, chg[i]) /\ chg[i].undone = 0
               /\ chg' = Append([chg EXCEPT ![i].undone = Len(chg) + 1], u)
  BY UndoMakes
<1>2. History /\ Plans /\ Writers
  BY DEF MemInv
<1>3. PICK n, c : n = Len(chg) + 1 /\ c = chg[i]
  OBVIOUS
<1>4. PICK d : d = [c EXCEPT !.undone = n]
  OBVIOUS
<1>5. PICK t : t = [chg EXCEPT ![i] = d]
  OBVIOUS
<1>6. chg \in Seq(ChangeRec) /\ Len(chg) \in Nat /\ DOMAIN chg = 1 .. Len(chg) /\ c \in ChangeRec /\ ChangeGood(c)
      /\ n \in Nat \ {0}
  BY <1>2, <1>3, Changed DEF History
<1>7. u \in ChangeRec /\ u.undone = 0 /\ u.kind = "undo"
  BY <1>1 DEF Makes, Undoes
<1>8. d \in ChangeRec /\ d.undone = n /\ d.kind = c.kind /\ d.before = c.before /\ d.after = c.after
  BY <1>4, <1>6, UndoneOnly
<1>9. /\ chg' \in Seq(ChangeRec) /\ Len(chg') = n /\ DOMAIN chg' = 1 .. n /\ chg'[n] = u /\ chg'[i] = d
      /\ \A j \in 1 .. Len(chg) : j # i => chg'[j] = chg[j]
  <2>1. chg' = Append(t, u)
    BY <1>1, <1>3, <1>4, <1>5
  <2>2. /\ t \in Seq(ChangeRec) /\ Len(t) = Len(chg) /\ t[i] = d
        /\ \A j \in 1 .. Len(chg) : j # i => t[j] = chg[j]
    BY <1>5, <1>6, <1>8
  <2>3. Append(t, u) \in Seq(ChangeRec) /\ Len(Append(t, u)) = Len(t) + 1
    BY ONLY <2>2, <1>7
  <2>4. Append(t, u)[Len(t) + 1] = u /\ \A j \in 1 .. Len(t) : Append(t, u)[j] = t[j]
    BY ONLY <2>2, <1>7
  <2>5. DOMAIN Append(t, u) = 1 .. Len(Append(t, u))
    BY <2>3
  <2> QED
    BY <1>3, <1>6, <2>1, <2>2, <2>3, <2>4, <2>5
<1>10. \A j \in 1 .. Len(chg) : /\ chg'[j].kind = chg[j].kind /\ chg'[j].before = chg[j].before
                                /\ chg'[j].after = chg[j].after
  BY <1>3, <1>8, <1>9
<1>11. vers' \in [MemId -> Seq(Snapshots)] /\ \A m \in MemId : RowGood(m)'
  <2>1. \A m \in MemId : vers'[m] \in Seq(Snapshots) /\ RowGood(m)'
    BY <1>1, <1>2, MadeVersions
  <2> QED
    BY <1>1, <2>1 DEF Makes
<1>12. ASSUME NEW j \in 1 .. n PROVE (ChangeGood(chg[j]))' /\ chg'[j].undone \in 0 .. n
  <2>1. \A e \in ChangeRec : ChangeGood(e) => ChangeGood(e)'
    BY <1>1, <1>2, MadeChanges
  <2>2. CASE j = n
    <3>1. ChangeGood(u)' /\ chg'[j] = u
      BY <1>1, <1>2, <1>9, <2>2, MadeChanges
    <3> QED
      BY <1>6, <1>7, <3>1 DEF ChangeGood
  <2>3. CASE j = i
    <3>1. ChangeGood(d)' /\ chg'[j] = d
      BY <1>4, <1>6, <1>9, <2>1, <2>3, UndoneOnly
    <3> QED
      BY <1>6, <1>8, <3>1 DEF ChangeGood
  <2>4. CASE j \in 1 .. Len(chg) /\ j # i
    <3>1. PICK e \in ChangeRec : e = chg[j] /\ ChangeGood(e) /\ e.undone \in 0 .. Len(chg)
      BY <1>2, <1>6, <2>4, Changed
    <3>2. ChangeGood(e)' /\ chg'[j] = e
      BY <1>9, <2>1, <2>4, <3>1
    <3> QED
      BY <1>3, <1>6, <3>1, <3>2 DEF ChangeGood
  <2> QED
    BY <1>3, <1>6, <2>2, <2>3, <2>4
<1>13. AllUndone'
  <2>1. AllUndone
    BY <1>2, UndoneIs DEF History
  <2> SUFFICES ASSUME NEW k \in 1 .. n, chg'[k].undone # 0
               PROVE  /\ Undoes(chg'[chg'[k].undone], chg'[k])
                      /\ \A j \in 1 .. n \ {k} : chg'[j].undone # chg'[k].undone
    BY <1>9 DEF AllUndone, Undoes
  <2>2. k # n
    BY <1>7, <1>9
  <2>3. CASE k = i
    <3>1. chg'[k] = d /\ chg'[k].undone = n /\ chg'[n] = u
      BY <1>8, <1>9, <2>3
    <3>2. Undoes(u, d)
      BY <1>1, <1>3, <1>8 DEF Undoes
    <3>3. ASSUME NEW j \in 1 .. n \ {k} PROVE chg'[j].undone # n
      <4>1. CASE j = n
        BY <1>6, <1>7, <1>9, <4>1
      <4>2. CASE j \in 1 .. Len(chg)
        <5>1. chg'[j] = chg[j] /\ chg[j].undone \in 0 .. Len(chg)
          BY <1>2, <1>6, <1>9, <2>3, <3>3, <4>2, Changed
        <5> QED
          BY <1>3, <1>6, <5>1
      <4> QED
        BY <1>3, <1>6, <3>3, <4>1, <4>2
    <3> QED
      BY <3>1, <3>2, <3>3
  <2>4. CASE k # i
    <3>0. PICK e : e = chg[k].undone
      OBVIOUS
    <3>1. k \in 1 .. Len(chg) /\ chg'[k] = chg[k] /\ e # 0
      BY <1>3, <1>6, <1>9, <2>2, <2>4, <3>0
    <3>2. e \in 1 .. Len(chg)
      BY <1>2, <1>6, <3>0, <3>1, Changed
    <3>3. Undoes(chg[e], chg[k]) /\ \A j \in DOMAIN chg \ {k} : chg[j].undone # e
      BY <1>6, <2>1, <3>0, <3>1 DEF AllUndone
    <3>4. Undoes(chg'[e], chg[k])
      BY <1>10, <3>2, <3>3 DEF Undoes
    <3>5. ASSUME NEW j \in 1 .. n \ {k} PROVE chg'[j].undone # e
      <4>1. CASE j = n
        BY <1>7, <1>9, <3>1, <4>1
      <4>2. CASE j = i
        BY <1>3, <1>6, <1>8, <1>9, <3>2, <4>2
      <4>3. CASE j \in 1 .. Len(chg) /\ j # i
        BY <1>6, <1>9, <3>3, <3>5, <4>3
      <4> QED
        BY <1>3, <1>6, <3>5, <4>1, <4>2, <4>3
    <3> QED
      BY <3>0, <3>1, <3>4, <3>5
  <2> QED
    BY <2>3, <2>4
<1>14. History'
  <2>1. \A j \in DOMAIN chg' : (ChangeGood(chg[j]))' /\ chg'[j].undone \in 0 .. Len(chg')
    BY <1>9, <1>12
  <2> QED
    BY <1>9, <1>11, <1>13, <2>1, UndoneStays DEF History
<1>15. UNCHANGED <<plan, lock, wr, auto>>
  BY DEF Undo
<1>16. Plans'
  <2>1. chg'[Len(chg) + 1].kind # "merge" /\ DOMAIN chg' = 1 .. Len(chg) + 1
    BY <1>3, <1>7, <1>9
  <2> QED
    BY <1>2, <1>6, <1>10, <1>15, <2>1, PlansStay
<1>17. Older
  BY <1>1, <1>2, MadeOlder
<1> QED
  BY <1>2, <1>14, <1>15, <1>16, <1>17, WritersRest DEF MemInv

LEMMA QuietKeeps ==
  ASSUME MemInv, UNCHANGED hand
  PROVE  MemInv'
<1>1. UNCHANGED <<mem, vers, chg, plan, lock, wr, auto>>
  BY DEF hand
<1>2. History' /\ Plans' /\ Older
  BY <1>1, RestKeeps
<1> QED
  BY <1>1, <1>2, WritersRest DEF MemInv

-----------------------------------------------------------------------------
(* All steps, and what follows.                                                *)

LEMMA MemStarts == MInit => MemInv
<1> SUFFICES ASSUME MInit PROVE MemInv
  OBVIOUS
<1>1. /\ mem = [m \in MemId |-> NoRow] /\ vers = [m \in MemId |-> <<>>] /\ chg = <<>> /\ plan = {}
      /\ lock = [s \in MemScope |-> Unheld] /\ wr = [w \in Writer |-> NoWriter] /\ auto = {}
  BY DEF MInit
<1>2. History
  <2>1. chg \in Seq(ChangeRec) /\ DOMAIN chg = {}
    BY <1>1
  <2>2. vers \in [MemId -> Seq(Snapshots)] /\ \A m \in MemId : RowGood(m)
    BY <1>1 DEF RowGood
  <2> QED
    BY <2>1, <2>2 DEF History, UndoExact
<1>3. Plans
  BY <1>1 DEF Plans, MergedAsShown
<1>4. Writers
  <2>1. NoWriter \in WriterRec /\ NoWriter.pc = "new"
    BY MemoryAssumption DEF NoWriter, WriterRec
  <2> QED
    BY <1>1, <2>1 DEF Writers, WriterGood
<1> QED
  BY <1>2, <1>3, <1>4 DEF MemInv

LEMMA MemSteps == MemInv /\ [MNext]_mvars => MemInv'
<1> SUFFICES ASSUME MemInv, [MNext]_mvars PROVE MemInv'
  OBVIOUS
<1>1. CASE DayNext
  <2>1. UNCHANGED hand
    BY <1>1 DEF DayNext, AppendSummary, WriteDay, WriterIsSilent, ConsolidateDay, DeleteDay
  <2> QED
    BY <2>1, QuietKeeps
<1>2. CASE UNCHANGED mvars
  <2>1. UNCHANGED hand
    BY <1>2 DEF mvars, hand
  <2> QED
    BY <2>1, QuietKeeps
<1>3. ASSUME NEW w \in Writer,
             \/ \E m \in MemId : OpenMemory(w, m)
             \/ DeleteMemory(w)
             \/ WriterAt(w, "open") /\ \E v \in DOMAIN vers[wr[w].id] : Restore(w, v)
             \/ LockScope(w) \/ WriterFails(w) \/ Look(w) \/ DecideCreate(w) \/ DecideSkip(w)
      PROVE  MemInv'
  BY <1>3, OpenMemoryKeeps, EditsKeep, LockScopeKeeps, LettingGo, LookKeeps, DecideCreateKeeps
<1>4. ASSUME NEW w \in Writer, NEW s \in MemScope, NEW c \in Text, UpdateMemory(w, s, c) \/ StartWrite(w, s, c)
      PROVE  MemInv'
  BY <1>4, EditsKeep, StartWriteKeeps
<1>5. ASSUME NEW w \in Writer, NEW m \in MemId, NEW c \in Text, DecideUpdate(w, m, c) PROVE MemInv'
  BY <1>5, DecideUpdateKeeps
<1>6. ASSUME NEW S \in SUBSET MemId, DeleteMemories(S) \/ Preview(S) PROVE MemInv'
  BY <1>6, DeleteMemoriesKeeps, PreviewKeeps
<1>7. ASSUME NEW s \in MemScope, NEW c \in Text, CreateMemory(s, c) PROVE MemInv'
  BY <1>7, CreateMemoryKeeps
<1>8. ASSUME NEW p \in plan, NEW m \in MemId, NEW c \in Text, Merge(p, m, c) PROVE MemInv'
  BY <1>8, MergeKeeps
<1>9. ASSUME NEW i \in DOMAIN chg, Undo(i) PROVE MemInv'
  BY <1>9, UndoKeeps
<1> QED
  BY <1>1, <1>2, <1>3, <1>4, <1>5, <1>6, <1>7, <1>8, <1>9 DEF MNext, HandNext

LEMMA MemMeans == MemInv => MemoryHistory
<1> SUFFICES ASSUME MemInv PROVE MemoryHistory
  OBVIOUS
<1>1. History /\ Plans /\ Writers
  BY DEF MemInv
<1>2. ChainWhole
  <2>1. \A m \in MemId : RowGood(m)
    BY <1>1 DEF History
  <2>2. \A i \in DOMAIN chg : ChangeGood(chg[i])
    BY <1>1 DEF History
  <2> QED
    BY <2>1, <2>2 DEF ChainWhole, RowGood, ChangeGood
<1>3. UndoExact /\ MergedAsShown
  BY <1>1 DEF History, Plans
<1>4. AddedOnce
  <2> SUFFICES ASSUME NEW m \in auto, NEW o \in auto, m # o, Live(m), Live(o), mem[m].version = 1, mem[o].version = 1,
                      mem[m].scope = mem[o].scope, mem[m].content = mem[o].content
               PROVE  FALSE
    BY DEF AddedOnce
  <2>1. PICK s, c : s = mem[m].scope /\ c = mem[m].content
    OBVIOUS
  <2>2. First(m, s, c) /\ First(o, s, c)
    BY <2>1 DEF First
  <2>3. m \in MemId
    BY <1>1 DEF Writers
  <2>4. Snap(mem[m]) \in Snapshots
    BY <1>1, <2>3, SnapIs
  <2>5. s \in MemScope /\ c \in Text
    BY <2>1, <2>4 DEF Snap, Snapshots
  <2> QED
    BY <1>1, <2>2, <2>5 DEF Writers
<1> QED
  BY <1>2, <1>3, <1>4 DEF MemoryHistory

(* However edits, automatic writers, merges and undos interleave: a memory is  *)
(* its latest version, every change started from the state just before it, an  *)
(* undo brings back what was, a plan merges what it showed, and no fact is     *)
(* added twice.                                                                *)
THEOREM MemoriesKeepHistory == MSpec => []MemoryHistory
<1>1. MSpec => []MemInv
  BY MemStarts, MemSteps, PTL DEF MSpec
<1> QED
  BY <1>1, MemMeans, PTL

-----------------------------------------------------------------------------
(* The models of a tenant.                                                     *)

RequestRec == [pc : {"idle", "read", "looked"},
               op : {"none", "create", "enable", "disable", "move", "delete", "default", "drop"},
               m : SUBSET Model, p : Provider \cup {Absent}, seen : SUBSET Model, dflt : SUBSET Model]
ModelTypes == /\ model \in [Model -> ModelRows] /\ offers \subseteq Provider
              /\ request \in [Admin -> RequestRec] /\ requests \in 0 .. MaxRequests
              /\ overlap \in BOOLEAN /\ stuck \in BOOLEAN
(* What the request that is alone knows of the models is so.                   *)
Knows(t) ==
    /\ t.op = "create" => t.p \in offers /\ t.m \cap Kept = {}
    /\ t.op = "move" => t.p \in offers
    /\ t.op \in {"delete", "default"} => \E x : t.m = {x}
    /\ t.op = "delete" => t.seen = t.m \cap Defaults
    /\ t.pc = "looked" => t.dflt = CASE t.op = "delete" -> IF t.seen = {} THEN {} ELSE Usable \ t.m
                                     [] t.op = "drop" -> {m \in Kept : model[m].provider = t.p}
                                     [] OTHER -> Defaults
Single == /\ \A r, o \in Admin : request[r].pc # "idle" /\ request[o].pc # "idle" => r = o
          /\ \A m, o \in Defaults : m = o
          /\ ~stuck /\ \A m \in Kept : model[m].provider \in offers
          /\ \A r \in Admin : request[r].pc # "idle" => Knows(request[r])
ModelInv == ModelTypes /\ (overlap \/ Single)

LEMMA ModelStarts == LInit => ModelInv
<1> SUFFICES ASSUME LInit PROVE ModelInv
  OBVIOUS
<1>1. NoRequest \in RequestRec /\ NoRequest.pc = "idle" /\ NoModel \in ModelRows /\ NoModel.is = "new"
  BY DEF NoRequest, RequestRec, NoModel, ModelRows
<1>2. /\ model \in [Model -> ModelRows] /\ offers \subseteq Provider /\ request \in [Admin -> RequestRec]
      /\ overlap \in BOOLEAN /\ stuck \in BOOLEAN
  BY <1>1 DEF LInit
<1>4. requests \in 0 .. MaxRequests
  BY ModelAssumption DEF LInit
<1>5. ModelTypes
  BY <1>2, <1>4 DEF ModelTypes
<1>3. Kept = {} /\ Defaults = {}
  BY <1>1 DEF LInit, Kept, Defaults
<1> QED
  BY <1>1, <1>5, <1>3 DEF ModelInv, Single, LInit

LEMMA ModelRests ==
  ASSUME ModelInv, UNCHANGED lvars
  PROVE  ModelInv'
<1>1. Kept' = Kept /\ Defaults' = Defaults /\ Usable' = Usable
  BY DEF lvars, Kept, Defaults, Usable
<1>2. \A r \in Admin : Knows(request[r]) => (Knows(request[r]))'
  BY <1>1 DEF lvars, Knows
<1> QED
  BY <1>1, <1>2 DEF ModelInv, ModelTypes, Single, lvars

(* A request begins.                                                           *)
LEMMA RequestBeginKeeps ==
  ASSUME ModelInv, NEW r \in Admin, NEW op \in {"create", "enable", "disable", "move", "delete", "default", "drop"},
         NEW ms \in SUBSET Model, NEW p \in Provider \cup {Absent}, BeginRequest(r, op, ms, p),
         op = "create" => p \in offers /\ ms \cap Kept = {},
         op = "move" => p \in offers,
         op \in {"delete", "default"} => \E x : ms = {x}
  PROVE  ModelInv'
<1>1. PICK t : t = [pc |-> "read", op |-> op, m |-> ms, p |-> p, seen |-> ms \cap Defaults, dflt |-> {}]
  OBVIOUS
<1>2. t \in RequestRec /\ t.pc = "read" /\ t.op = op /\ t.m = ms /\ t.p = p /\ t.seen = ms \cap Defaults
  BY <1>1 DEF RequestRec
<1>3. /\ request' = [request EXCEPT ![r] = t] /\ requests < MaxRequests /\ requests' = requests + 1
      /\ overlap' = (overlap \/ \E o \in Admin : request[o].pc # "idle") /\ UNCHANGED <<model, offers, stuck>>
  BY <1>1 DEF BeginRequest
<1>4. request' \in [Admin -> RequestRec] /\ request'[r] = t /\ \A o \in Admin : o # r => request'[o] = request[o]
  BY <1>2, <1>3 DEF ModelInv, ModelTypes
<1>5. ModelTypes'
  BY <1>3, <1>4, ModelAssumption DEF ModelInv, ModelTypes
<1>6. Kept' = Kept /\ Defaults' = Defaults /\ Usable' = Usable
  BY <1>3 DEF Kept, Defaults, Usable
<1>7. ASSUME ~overlap' PROVE Single'
  <2>1. Single /\ \A o \in Admin : request[o].pc = "idle"
    BY <1>3, <1>7 DEF ModelInv
  <2>2. Knows(t)'
    BY <1>2, <1>3, <1>6 DEF Knows
  <2>3. \A o \in Admin : request'[o].pc # "idle" => o = r
    BY <1>4, <2>1
  <2>5. ASSUME NEW o \in Admin, request'[o].pc # "idle" PROVE Knows(request[o])'
    <3>1. request'[o] = t
      BY <1>4, <2>3, <2>5
    <3> QED
      BY <2>2, <3>1 DEF Knows
  <2>6. /\ \A m, o \in Defaults' : m = o
        /\ ~stuck' /\ \A m \in Kept' : model'[m].provider \in offers'
    BY <1>3, <1>6, <2>1 DEF Single
  <2>7. \A q, o \in Admin : request'[q].pc # "idle" /\ request'[o].pc # "idle" => q = o
    BY <2>3
  <2> QED
    BY <2>5, <2>6, <2>7 DEF Single
<1> QED
  BY <1>3, <1>5, <1>7 DEF ModelInv

(* A request ends, and the models become others.                               *)
LEMMA EndKeeps ==
  ASSUME ModelInv, NEW r \in Admin, request[r].pc = "looked", Ends(r),
         model' \in [Model -> ModelRows], offers' \subseteq offers, stuck' \in BOOLEAN,
         Single => /\ \A m, o \in Defaults' : m = o
                   /\ ~stuck' /\ \A m \in Kept' : model'[m].provider \in offers'
  PROVE  ModelInv'
<1>1. NoRequest \in RequestRec /\ NoRequest.pc = "idle"
  BY DEF NoRequest, RequestRec
<1>2. /\ request' \in [Admin -> RequestRec] /\ request'[r] = NoRequest /\ \A o \in Admin : o # r => request'[o] = request[o]
      /\ UNCHANGED <<requests, overlap>>
  BY <1>1 DEF ModelInv, ModelTypes, Ends
<1>3. ModelTypes'
  BY <1>2 DEF ModelInv, ModelTypes
<1>4. ASSUME Single PROVE Single'
  <2>1. \A o \in Admin : request'[o].pc = "idle"
    BY <1>1, <1>2, <1>4 DEF Single
  <2> QED
    BY <1>4, <2>1 DEF Single
<1> QED
  BY <1>2, <1>3, <1>4 DEF ModelInv

LEMMA CreateProviderKeeps ==
  ASSUME ModelInv, NEW r \in Admin, CreateProvider(r)
  PROVE  ModelInv'
<1>1. UNCHANGED <<model, request, requests, overlap, stuck>> /\ offers \subseteq offers' /\ offers' \subseteq Provider
  BY DEF CreateProvider, ModelInv, ModelTypes
<1>2. Kept' = Kept /\ Defaults' = Defaults /\ Usable' = Usable
  BY <1>1 DEF Kept, Defaults, Usable
<1>3. \A o \in Admin : Knows(request[o]) => (Knows(request[o]))'
  BY <1>1, <1>2 DEF Knows
<1> QED
  BY <1>1, <1>2, <1>3 DEF ModelInv, ModelTypes, Single

LEMMA RequestsBeginKeep ==
  ASSUME ModelInv, NEW r \in Admin,
         CreateModels(r) \/ UpdateModel(r) \/ DeleteModel(r) \/ SetDefault(r) \/ DeleteProvider(r)
  PROVE  ModelInv'
<1>0. offers \subseteq Provider /\ Kept \subseteq Model
  BY DEF ModelInv, ModelTypes, Kept
<1>1. CASE CreateModels(r)
  <2>1. PICK p \in offers, ms \in SUBSET {m \in Model : model[m].is = "new"} : BeginRequest(r, "create", ms, p)
    BY <1>1 DEF CreateModels
  <2>2. ms \cap Kept = {} /\ ms \in SUBSET Model /\ p \in Provider \cup {Absent}
    BY <1>0 DEF Kept
  <2> QED
    BY <2>1, <2>2, RequestBeginKeeps
<1>2. CASE UpdateModel(r)
  <2>1. PICK m \in Kept : \/ BeginRequest(r, IF model[m].on THEN "disable" ELSE "enable", {m}, Absent)
                          \/ \E p \in offers : BeginRequest(r, "move", {m}, p)
    BY <1>2 DEF UpdateModel
  <2>2. {m} \in SUBSET Model
    BY <1>0
  <2>3. CASE BeginRequest(r, IF model[m].on THEN "disable" ELSE "enable", {m}, Absent)
    <3>1. PICK op \in {"enable", "disable"} : BeginRequest(r, op, {m}, Absent)
      BY <2>3
    <3>2. Absent \in Provider \cup {Absent}
      OBVIOUS
    <3> QED
      BY <2>2, <3>1, <3>2, RequestBeginKeeps
  <2>4. ASSUME NEW p \in offers, BeginRequest(r, "move", {m}, p) PROVE ModelInv'
    BY <1>0, <2>2, <2>4, RequestBeginKeeps
  <2> QED
    BY <2>1, <2>3, <2>4
<1>3. CASE DeleteModel(r) \/ SetDefault(r)
  <2>1. PICK m \in Kept, op \in {"delete", "default"} : BeginRequest(r, op, {m}, Absent)
    BY <1>3 DEF DeleteModel, SetDefault
  <2>2. {m} \in SUBSET Model /\ (\E x : {m} = {x}) /\ Absent \in Provider \cup {Absent}
    BY <1>0
  <2> QED
    BY <2>1, <2>2, RequestBeginKeeps
<1>4. CASE DeleteProvider(r)
  <2>1. PICK p \in offers : BeginRequest(r, "drop", {}, p)
    BY <1>4 DEF DeleteProvider
  <2>2. {} \in SUBSET Model /\ p \in Provider \cup {Absent}
    BY <1>0
  <2> QED
    BY <2>1, <2>2, RequestBeginKeeps
<1> QED
  BY <1>1, <1>2, <1>3, <1>4

LEMMA InspectKeeps ==
  ASSUME ModelInv, NEW r \in Admin, Inspect(r)
  PROVE  ModelInv'
<1> DEFINE t == request[r]
<1>1. PICK d : d = CASE t.op = "delete" -> IF t.seen = {} THEN {} ELSE Usable \ t.m
                     [] t.op = "drop" -> {m \in Kept : model[m].provider = t.p}
                     [] OTHER -> Defaults
  OBVIOUS
<1>2. t.pc = "read" /\ request' = [request EXCEPT ![r].pc = "looked", ![r].dflt = d]
      /\ UNCHANGED <<model, offers, requests, overlap, stuck>>
  BY <1>1 DEF Inspect
<1>3. d \in SUBSET Model
  <2>1. Usable \subseteq Model /\ Kept \subseteq Model /\ Defaults \subseteq Model
    BY DEF Usable, Kept, Defaults
  <2> QED
    BY <1>1, <2>1
<1>4. PICK u : u = [t EXCEPT !.pc = "looked", !.dflt = d]
  OBVIOUS
<1>5. u \in RequestRec /\ u.pc = "looked" /\ u.dflt = d /\ u.op = t.op /\ u.m = t.m /\ u.p = t.p /\ u.seen = t.seen
  BY <1>3, <1>4 DEF RequestRec, ModelInv, ModelTypes
<1>6. request' = [request EXCEPT ![r] = u]
  BY <1>2, <1>4 DEF ModelInv, ModelTypes
<1>7. request' \in [Admin -> RequestRec] /\ request'[r] = u /\ \A o \in Admin : o # r => request'[o] = request[o]
  BY <1>5, <1>6 DEF ModelInv, ModelTypes
<1>8. Kept' = Kept /\ Defaults' = Defaults /\ Usable' = Usable
  BY <1>2 DEF Kept, Defaults, Usable
<1>9. ASSUME Single PROVE Single'
  <2>1. Knows(t) /\ \A o \in Admin : request[o].pc # "idle" => o = r
    BY <1>2, <1>9 DEF Single
  <2>2. Knows(u)'
    <3>1. model' = model /\ offers' = offers
      BY <1>2
    <3>2. /\ u.op = "create" => u.p \in offers' /\ u.m \cap Kept' = {}
          /\ u.op = "move" => u.p \in offers'
          /\ u.op \in {"delete", "default"} => \E x : u.m = {x}
          /\ u.op = "delete" => u.seen = u.m \cap Defaults'
      BY <1>5, <1>8, <2>1, <3>1 DEF Knows
    <3>3. u.dflt = CASE u.op = "delete" -> IF u.seen = {} THEN {} ELSE Usable' \ u.m
                      [] u.op = "drop" -> {m \in Kept' : model'[m].provider = u.p}
                      [] OTHER -> Defaults'
      BY <1>1, <1>5, <1>8, <3>1
    <3> QED
      BY <3>2, <3>3 DEF Knows
  <2>3. \A o \in Admin : request'[o].pc # "idle" => o = r
    BY <1>7, <2>1
  <2>4. ASSUME NEW o \in Admin, request'[o].pc # "idle" PROVE (Knows(request[o]))'
    <3>1. o = r /\ request'[o] = u
      BY <1>7, <2>3, <2>4
    <3> QED
      BY <2>2, <3>1 DEF Knows
  <2> QED
    BY <1>2, <1>7, <1>8, <1>9, <2>3, <2>4 DEF Single
<1> QED
  BY <1>2, <1>7, <1>9 DEF ModelInv, ModelTypes

(* One set of which any two are one.                                           *)
LEMMA AtMostOneIs ==
  ASSUME NEW S, \A x, y \in S : x = y
  PROVE  IsFiniteSet(S) /\ Cardinality(S) \in Nat /\ Cardinality(S) <= 1
<1>1. CASE S = {}
  BY <1>1, FS_EmptySet
<1>2. CASE \E x : S = {x}
  BY <1>2, FS_Singleton
<1> QED
  BY <1>1, <1>2

LEMMA SaveModelsKeeps ==
  ASSUME ModelInv, NEW r \in Admin, SaveModels(r)
  PROVE  ModelInv'
<1>1. PICK t \in RequestRec : t = request[r]
  BY DEF ModelInv, ModelTypes
<1>2. t.pc = "looked" /\ t.op = "create" /\ Ends(r)
  BY <1>1 DEF SaveModels, Fails
<1>3. CASE Cardinality(t.dflt) > 1
  <2>1. UNCHANGED <<model, offers>> /\ stuck' = TRUE
    BY <1>1, <1>3 DEF SaveModels, Fails
  <2>2. ~Single
    <3>1. SUFFICES ASSUME Single PROVE FALSE
      OBVIOUS
    <3>2. t.dflt = Defaults /\ \A m, o \in Defaults : m = o
      BY <1>1, <1>2, <3>1 DEF Single, Knows
    <3>3. Cardinality(t.dflt) \in Nat /\ Cardinality(t.dflt) <= 1
      BY <3>2, AtMostOneIs
    <3> QED
      BY <1>3, <3>3
  <2> QED
    BY <1>1, <1>2, <2>1, <2>2, EndKeeps DEF ModelInv, ModelTypes
<1>4. CASE ~(Cardinality(t.dflt) > 1)
  <2>1. PICK first \in t.m :
          model' = [m \in Model |-> IF m \in t.m
                      THEN [is |-> "here", provider |-> t.p, on |-> TRUE, default |-> m = first /\ t.dflt = {}]
                      ELSE model[m]]
    BY <1>1, <1>4 DEF SaveModels, FirstIsDefault
  <2>2. UNCHANGED <<offers, stuck>>
    BY <1>1, <1>4 DEF SaveModels
  <2>3. \A m \in Model : model[m] \in ModelRows
    BY DEF ModelInv, ModelTypes
  <2>4. t.p \in Provider \cup {Absent} /\ t.m \subseteq Model
    BY DEF RequestRec
  <2>5. ASSUME NEW m \in Model
        PROVE  model'[m] \in ModelRows
    BY <2>1, <2>3, <2>4 DEF ModelRows
  <2>6. model' \in [Model -> ModelRows]
    BY <2>1, <2>5
  <2>7. \A m \in t.m : model'[m].is = "here" /\ model'[m].provider = t.p
                       /\ (model'[m].default <=> (m = first /\ t.dflt = {}))
    BY <2>1, <2>4
  <2>8. \A m \in Model : m \notin t.m => model'[m] = model[m]
    BY <2>1
  <2>9. ASSUME Single
        PROVE  /\ \A m, o \in Defaults' : m = o
               /\ ~stuck' /\ \A m \in Kept' : model'[m].provider \in offers'
    <3>1. t.p \in offers /\ t.m \cap Kept = {} /\ t.dflt = Defaults
      BY <1>1, <1>2, <2>9 DEF Single, Knows
    <3>2. \A m \in Defaults' : m \in Defaults \/ (m = first /\ Defaults = {})
      BY <2>7, <2>8, <3>1 DEF Defaults, Kept
    <3>3. \A m \in Kept' : m \in t.m \/ (m \in Kept /\ model'[m] = model[m])
      BY <2>8 DEF Kept
    <3> QED
      BY <2>2, <2>7, <2>9, <3>1, <3>2, <3>3 DEF Single
  <2> QED
    BY <1>1, <1>2, <2>2, <2>6, <2>9, EndKeeps DEF ModelInv, ModelTypes
<1> QED
  BY <1>3, <1>4

(* A request that finds a row gone leaves all as it is.                        *)
LEMMA FailsKeeps ==
  ASSUME ModelInv, NEW r \in Admin, request[r].pc = "looked", Fails(r), stuck' = stuck
  PROVE  ModelInv'
<1>1. Ends(r) /\ UNCHANGED <<model, offers>>
  BY DEF Fails
<1>2. Kept' = Kept /\ Defaults' = Defaults
  BY <1>1 DEF Kept, Defaults
<1>3. Single => /\ \A m, o \in Defaults' : m = o
                /\ ~stuck' /\ \A m \in Kept' : model'[m].provider \in offers'
  BY <1>1, <1>2 DEF Single
<1> QED
  BY <1>1, <1>3, EndKeeps DEF ModelInv, ModelTypes

(* The row of a model as it is written.                                        *)
LEMMA MovedRow ==
  ASSUME NEW x \in ModelRows, NEW p \in Provider \cup {Absent}
  PROVE  /\ [x EXCEPT !.provider = p] \in ModelRows /\ [x EXCEPT !.provider = p].is = x.is
         /\ [x EXCEPT !.provider = p].default = x.default /\ [x EXCEPT !.provider = p].provider = p
  BY DEF ModelRows

LEMMA SwitchedRow ==
  ASSUME NEW x \in ModelRows, NEW b \in BOOLEAN
  PROVE  /\ [x EXCEPT !.on = b] \in ModelRows /\ [x EXCEPT !.on = b].is = x.is
         /\ [x EXCEPT !.on = b].default = x.default /\ [x EXCEPT !.on = b].provider = x.provider
  BY DEF ModelRows

LEMMA DefaultRow ==
  ASSUME NEW x \in ModelRows, NEW b \in BOOLEAN
  PROVE  /\ [x EXCEPT !.default = b] \in ModelRows /\ [x EXCEPT !.default = b].is = x.is
         /\ [x EXCEPT !.default = b].default = b /\ [x EXCEPT !.default = b].provider = x.provider
  BY DEF ModelRows

LEMMA GoneRow == [NoModel EXCEPT !.is = "deleted"] \in ModelRows /\ [NoModel EXCEPT !.is = "deleted"].is = "deleted"
  BY DEF NoModel, ModelRows

LEMMA SaveUpdateKeeps ==
  ASSUME ModelInv, NEW r \in Admin, SaveUpdate(r)
  PROVE  ModelInv'
<1>1. PICK t \in RequestRec : t = request[r]
  BY DEF ModelInv, ModelTypes
<1>2. t.pc = "looked" /\ t.op \in {"enable", "disable", "move"}
  BY <1>1 DEF SaveUpdate
<1>3. CASE ~(t.m \subseteq Kept)
  BY <1>1, <1>2, <1>3, FailsKeeps DEF SaveUpdate
<1>4. CASE t.m \subseteq Kept
  <2>1. /\ Ends(r) /\ UNCHANGED <<offers, stuck>>
        /\ model' = [m \in Model |-> IF m \notin t.m THEN model[m]
                                     ELSE IF t.op = "move" THEN [model[m] EXCEPT !.provider = t.p]
                                     ELSE [model[m] EXCEPT !.on = (t.op = "enable")]]
    BY <1>1, <1>4 DEF SaveUpdate
  <2>2. \A m \in Model : model[m] \in ModelRows
    BY DEF ModelInv, ModelTypes
  <2>3. t.p \in Provider \cup {Absent} /\ (t.op = "enable") \in BOOLEAN
    BY DEF RequestRec
  <2>4. ASSUME NEW m \in Model
        PROVE  /\ model'[m] \in ModelRows /\ model'[m].is = model[m].is /\ model'[m].default = model[m].default
               /\ model'[m].provider = model[m].provider \/ (t.op = "move" /\ model'[m].provider = t.p)
    <3>1. CASE m \notin t.m
      BY <2>1, <2>2, <3>1
    <3>2. CASE m \in t.m /\ t.op = "move"
      <4>1. model'[m] = [model[m] EXCEPT !.provider = t.p]
        BY <2>1, <3>2
      <4> QED
        BY <2>2, <2>3, <3>2, <4>1, MovedRow
    <3>3. CASE m \in t.m /\ t.op # "move"
      <4>1. PICK b \in BOOLEAN : b = (t.op = "enable")
        OBVIOUS
      <4>2. model'[m] = [model[m] EXCEPT !.on = b]
        BY <2>1, <3>3, <4>1
      <4> QED
        BY <2>2, <3>3, <4>2, SwitchedRow
    <3> QED
      BY <3>1, <3>2, <3>3
  <2>5. Kept' = Kept /\ Defaults' = Defaults
    BY <2>4 DEF Kept, Defaults
  <2>6. model' \in [Model -> ModelRows]
    BY <2>1, <2>4
  <2>7. ASSUME Single
        PROVE  /\ \A m, o \in Defaults' : m = o
               /\ ~stuck' /\ \A m \in Kept' : model'[m].provider \in offers'
    <3>1. t.op = "move" => t.p \in offers
      BY <1>1, <1>2, <2>7 DEF Single, Knows
    <3>2. Kept \subseteq Model
      BY DEF Kept
    <3> QED
      BY <2>1, <2>4, <2>5, <2>7, <3>1, <3>2 DEF Single
  <2> QED
    BY <1>1, <1>2, <2>1, <2>6, <2>7, EndKeeps DEF ModelInv, ModelTypes
<1> QED
  BY <1>3, <1>4

LEMMA SaveDeletionKeeps ==
  ASSUME ModelInv, NEW r \in Admin, SaveDeletion(r)
  PROVE  ModelInv'
<1>1. PICK t \in RequestRec : t = request[r]
  BY DEF ModelInv, ModelTypes
<1>2. t.pc = "looked" /\ t.op = "delete"
  BY <1>1 DEF SaveDeletion
<1>3. PICK heir \in Heirs(t) :
        IF heir \subseteq Kept
        THEN /\ model' = [m \in Model |-> IF m \in t.m THEN [NoModel EXCEPT !.is = "deleted"]
                                          ELSE IF m \in heir THEN [model[m] EXCEPT !.default = TRUE]
                                          ELSE model[m]]
             /\ Ends(r) /\ UNCHANGED <<offers, stuck>>
        ELSE Fails(r) /\ UNCHANGED stuck
  BY <1>1 DEF SaveDeletion
<1>4. CASE ~(heir \subseteq Kept)
  BY <1>1, <1>2, <1>3, <1>4, FailsKeeps
<1>5. CASE heir \subseteq Kept
  <2>1. /\ Ends(r) /\ UNCHANGED <<offers, stuck>>
        /\ model' = [m \in Model |-> IF m \in t.m THEN [NoModel EXCEPT !.is = "deleted"]
                                     ELSE IF m \in heir THEN [model[m] EXCEPT !.default = TRUE]
                                     ELSE model[m]]
    BY <1>3, <1>5
  <2>2. \A m \in Model : model[m] \in ModelRows
    BY DEF ModelInv, ModelTypes
  <2>3. ASSUME NEW m \in Model
        PROVE  /\ model'[m] \in ModelRows
               /\ m \in t.m => model'[m].is = "deleted"
               /\ m \notin t.m => /\ model'[m].is = model[m].is /\ model'[m].provider = model[m].provider
                                  /\ m \notin heir => model'[m].default = model[m].default
    <3>1. CASE m \in t.m
      BY <2>1, <3>1, GoneRow
    <3>2. CASE m \notin t.m /\ m \in heir
      <4>1. model'[m] = [model[m] EXCEPT !.default = TRUE]
        BY <2>1, <3>2
      <4> QED
        BY <2>2, <3>2, <4>1, DefaultRow
    <3>3. CASE m \notin t.m /\ m \notin heir
      BY <2>1, <2>2, <3>3
    <3> QED
      BY <3>1, <3>2, <3>3
  <2>4. model' \in [Model -> ModelRows]
    BY <2>1, <2>3
  <2>5. ASSUME Single
        PROVE  /\ \A m, o \in Defaults' : m = o
               /\ ~stuck' /\ \A m \in Kept' : model'[m].provider \in offers'
    <3>1. /\ t.seen = t.m \cap Defaults /\ t.dflt = IF t.seen = {} THEN {} ELSE Usable \ t.m
          /\ \E x : t.m = {x}
      BY <1>1, <1>2, <2>5 DEF Single, Knows
    <3>2. \A m \in Kept' : m \in Kept /\ m \in Model /\ m \notin t.m
      BY <2>3 DEF Kept
    <3>3. \A m \in Defaults' : m \in heir \/ (m \in Defaults /\ m \notin t.m)
      BY <2>3, <3>2 DEF Defaults, Kept
    <3>4. CASE t.seen = {}
      <4>1. heir = {}
        BY <3>1, <3>4 DEF Heirs
      <4> QED
        BY <2>1, <2>3, <2>5, <3>2, <3>3, <4>1 DEF Single
    <3>5. CASE t.seen # {}
      <4>1. \A m \in Defaults : m \in t.m
        BY <2>5, <3>1, <3>5 DEF Single
      <4>2. \A m, o \in heir : m = o
        BY DEF Heirs
      <4> QED
        BY <2>1, <2>3, <2>5, <3>2, <3>3, <4>1, <4>2 DEF Single
    <3> QED
      BY <3>4, <3>5
  <2> QED
    BY <1>1, <1>2, <2>1, <2>4, <2>5, EndKeeps DEF ModelInv, ModelTypes
<1> QED
  BY <1>4, <1>5

LEMMA SaveDefaultKeeps ==
  ASSUME ModelInv, NEW r \in Admin, SaveDefault(r)
  PROVE  ModelInv'
<1>1. PICK t \in RequestRec : t = request[r]
  BY DEF ModelInv, ModelTypes
<1>2. t.pc = "looked" /\ t.op = "default"
  BY <1>1 DEF SaveDefault
<1>3. CASE ~(t.m \subseteq Kept)
  BY <1>1, <1>2, <1>3, FailsKeeps DEF SaveDefault
<1>4. CASE t.m \subseteq Kept
  <2>1. /\ Ends(r) /\ UNCHANGED <<offers, stuck>>
        /\ model' = [m \in Model |-> IF m \in t.m THEN [model[m] EXCEPT !.default = TRUE]
                                     ELSE IF m \in Kept /\ m \in t.dflt THEN [model[m] EXCEPT !.default = FALSE]
                                     ELSE model[m]]
    BY <1>1, <1>4 DEF SaveDefault, Cleared
  <2>2. \A m \in Model : model[m] \in ModelRows
    BY DEF ModelInv, ModelTypes
  <2>3. ASSUME NEW m \in Model
        PROVE  /\ model'[m] \in ModelRows /\ model'[m].is = model[m].is /\ model'[m].provider = model[m].provider
               /\ m \notin t.m => /\ m \in Kept /\ m \in t.dflt => ~model'[m].default
                                  /\ ~(m \in Kept /\ m \in t.dflt) => model'[m].default = model[m].default
    <3>1. CASE m \in t.m
      <4>1. model'[m] = [model[m] EXCEPT !.default = TRUE]
        BY <2>1, <3>1
      <4> QED
        BY <2>2, <3>1, <4>1, DefaultRow
    <3>2. CASE m \notin t.m /\ m \in Kept /\ m \in t.dflt
      <4>1. model'[m] = [model[m] EXCEPT !.default = FALSE]
        BY <2>1, <3>2
      <4> QED
        BY <2>2, <3>2, <4>1, DefaultRow
    <3>3. CASE m \notin t.m /\ ~(m \in Kept /\ m \in t.dflt)
      BY <2>1, <2>2, <3>3
    <3> QED
      BY <3>1, <3>2, <3>3
  <2>4. model' \in [Model -> ModelRows]
    BY <2>1, <2>3
  <2>5. Kept' = Kept
    BY <2>3 DEF Kept
  <2>6. ASSUME Single
        PROVE  /\ \A m, o \in Defaults' : m = o
               /\ ~stuck' /\ \A m \in Kept' : model'[m].provider \in offers'
    <3>1. t.dflt = Defaults /\ \E x : t.m = {x}
      BY <1>1, <1>2, <2>6 DEF Single, Knows
    <3>2. \A m \in Defaults' : m \in t.m
      <4> SUFFICES ASSUME NEW m \in Defaults', m \notin t.m PROVE FALSE
        OBVIOUS
      <4>1. m \in Kept /\ m \in Model /\ model'[m].default
        BY <2>5 DEF Defaults, Kept
      <4> QED
        BY <2>3, <3>1, <4>1 DEF Defaults
    <3>3. Kept \subseteq Model
      BY DEF Kept
    <3> QED
      BY <2>1, <2>3, <2>5, <2>6, <3>1, <3>2, <3>3 DEF Single
  <2> QED
    BY <1>1, <1>2, <2>1, <2>4, <2>6, EndKeeps DEF ModelInv, ModelTypes
<1> QED
  BY <1>3, <1>4

LEMMA SaveDropKeeps ==
  ASSUME ModelInv, NEW r \in Admin, SaveDrop(r)
  PROVE  ModelInv'
<1>1. PICK t \in RequestRec : t = request[r]
  BY DEF ModelInv, ModelTypes
<1>2. /\ t.pc = "looked" /\ t.op = "drop" /\ offers' = offers \ {t.p} /\ Ends(r) /\ UNCHANGED stuck
      /\ model' = [m \in Model |-> IF m \in t.dflt THEN [NoModel EXCEPT !.is = "deleted"] ELSE model[m]]
  BY <1>1 DEF SaveDrop
<1>3. \A m \in Model : /\ model'[m] \in ModelRows
                       /\ m \in t.dflt => model'[m].is = "deleted"
                       /\ m \notin t.dflt => model'[m] = model[m]
  BY <1>2, GoneRow DEF ModelInv, ModelTypes
<1>4. model' \in [Model -> ModelRows]
  BY <1>2, <1>3
<1>5. ASSUME Single
      PROVE  /\ \A m, o \in Defaults' : m = o
             /\ ~stuck' /\ \A m \in Kept' : model'[m].provider \in offers'
  <2>1. t.dflt = {m \in Kept : model[m].provider = t.p}
    BY <1>1, <1>2, <1>5 DEF Single, Knows
  <2>2. \A m \in Kept' : m \in Kept /\ m \notin t.dflt /\ model'[m] = model[m]
    BY <1>3 DEF Kept
  <2>3. \A m \in Defaults' : m \in Defaults
    BY <2>2 DEF Defaults
  <2> QED
    BY <1>2, <1>5, <2>1, <2>2, <2>3 DEF Single
<1> QED
  BY <1>1, <1>2, <1>4, <1>5, EndKeeps DEF ModelInv, ModelTypes

LEMMA ModelSteps ==
  ASSUME ModelInv, LNext
  PROVE  ModelInv'
  BY CreateProviderKeeps, RequestsBeginKeep, InspectKeeps, SaveModelsKeeps, SaveUpdateKeeps, SaveDeletionKeeps,
     SaveDefaultKeeps, SaveDropKeeps DEF LNext

LEMMA ModelMeans == ModelInv => ModelsHold
<1> SUFFICES ASSUME ModelInv PROVE ModelsHold
  OBVIOUS
<1>1. LTypeOK
  BY DEF ModelInv, ModelTypes, LTypeOK, RequestRec
<1>2. ASSUME Single
      PROVE  /\ Cardinality(Defaults) <= 1 /\ ~stuck
             /\ \A m \in Kept : model[m].provider \in offers
             /\ \A m \in Model \cup {Absent} : Cardinality(Resolve(m)) <= 1
  <2>1. \A m, o \in Defaults : m = o
    BY <1>2 DEF Single
  <2>2. ASSUME NEW m \in Model \cup {Absent} PROVE Cardinality(Resolve(m)) <= 1
    <3>1. \A x, y \in Resolve(m) : x = y
      BY <2>1 DEF Resolve, WithProvider
    <3> QED
      BY <3>1, AtMostOneIs
  <2> QED
    BY <1>2, <2>1, <2>2, AtMostOneIs DEF Single
<1> QED
  BY <1>1, <1>2 DEF ModelInv, ModelsHold, OneDefault

-----------------------------------------------------------------------------
(* The requests that administer a channel.                                     *)

AdapterRec == [config : Config, state : {"up", "drain", "down"}]
CallRec == [do : {"none", "create", "enable", "disable", "delete", "update"},
            pc : {"over", "load", "verify", "commit", "start", "stop", "drain", "write"},
            seen : Status \cup {"none"}, config : Config \cup {"none"}, mine : Nat]
AdminTypes ==
    /\ row \in [status : Status \cup {"none", "deleted"}, config : Config \cup {"none"}]
    /\ row.status \in Status => row.config \in Config
    /\ adapter \in Seq(AdapterRec) /\ running \in 0 .. Len(adapter) /\ hook \in 0 .. Len(adapter)
    /\ call \in [AdminReq -> CallRec] /\ restarts \in Nat /\ overlapped \in BOOLEAN
    /\ \A r \in AdminReq : /\ call[r].pc \in {"verify", "start", "commit"} => call[r].config \in Config
                           /\ call[r].pc = "drain" => call[r].mine \in 1 .. Len(adapter)
                           /\ call[r].pc # "over" => r \in used
HookIsServed == hook # 0 => adapter[hook].state # "down" /\ Mode[adapter[hook].config] = "webhook"
(* What holds as long as the requests come one after the other.                *)
InTurn ==
    /\ \A r, o \in AdminReq : call[r].pc # "over" /\ call[o].pc # "over" => r = o
    /\ \A r \in AdminReq : call[r].pc # "over" =>
         Exists /\ call[r].seen = row.status /\ (call[r].pc = "start" => row.status = "enabled")
    /\ \A r \in AdminReq : call[r].pc \in {"drain", "write"} => running = 0
    /\ running # 0 /\ Mode[adapter[running].config] = "webhook" => hook = running
    /\ hook # 0 => hook = running \/ \E r \in AdminReq : call[r].pc = "drain" /\ call[r].mine = hook
    /\ row.status = "enabled" => running # 0 \/ \E r \in AdminReq : call[r].pc \in {"start", "drain", "write"}
    /\ row.status \in {"deleted", "error"} => running = 0 /\ (hook = 0 \/ \E r \in AdminReq : call[r].pc # "over")
AdminInv == /\ AdminTypes /\ NoneLeaks /\ HookIsServed
            /\ overlapped \/ restarts # 0 \/ InTurn

LEMMA AdminStarts == DInit => AdminInv
<1> SUFFICES ASSUME DInit PROVE AdminInv
  OBVIOUS
<1>1. NoCall \in CallRec /\ NoCall.pc = "over"
  BY DEF NoCall, CallRec
<1>2. adapter = << >> /\ Len(adapter) = 0 /\ adapter \in Seq(AdapterRec) /\ DOMAIN adapter = {}
  BY DEF DInit
<1>3. AdminTypes
  <2>1. row \in [status : Status \cup {"none", "deleted"}, config : Config \cup {"none"}] /\ row.status \notin Status
    BY DEF DInit, Status
  <2>2. call \in [AdminReq -> CallRec] /\ \A r \in AdminReq : call[r].pc = "over"
    BY <1>1 DEF DInit
  <2>3. restarts = 0 /\ running = 0 /\ hook = 0 /\ overlapped \in BOOLEAN
    BY DEF DInit
  <2>4. restarts \in Nat /\ running \in 0 .. Len(adapter) /\ hook \in 0 .. Len(adapter)
    BY <1>2, <2>3
  <2> QED
    BY <1>2, <2>1, <2>2, <2>3, <2>4 DEF AdminTypes
<1>4. NoneLeaks /\ HookIsServed /\ InTurn
  BY <1>1, <1>2 DEF DInit, NoneLeaks, HookIsServed, InTurn
<1> QED
  BY <1>3, <1>4 DEF AdminInv

LEMMA AdminRests ==
  ASSUME AdminInv, UNCHANGED dvars
  PROVE  AdminInv'
  BY DEF AdminInv, AdminTypes, NoneLeaks, HookIsServed, InTurn, Exists, dvars

(* A request moves, and the connections stay as they are.                      *)
LEMMA CallMoves ==
  ASSUME AdminInv, NEW r \in AdminReq, NEW c \in CallRec, call' = [call EXCEPT ![r] = c],
         UNCHANGED <<links, restarts>>, call[r].pc # "drain", c.pc # "drain",
         r \in used', used \subseteq used',
         c.pc \in {"verify", "start", "commit"} => c.config \in Config,
         row' \in [status : Status \cup {"none", "deleted"}, config : Config \cup {"none"}],
         row'.status \in Status => row'.config \in Config,
         overlapped' \in BOOLEAN,
         ~overlapped' /\ restarts = 0 =>
            /\ ~overlapped
            /\ \A o \in AdminReq : o # r => call[o].pc = "over"
            /\ c.pc # "over" => row'.status \in Status /\ c.seen = row'.status
            /\ c.pc = "start" => row'.status = "enabled"
            /\ c.pc = "write" => running = 0
            /\ row'.status = "enabled" => running # 0 \/ c.pc \in {"start", "write"}
            /\ row'.status \in {"deleted", "error"} => running = 0
  PROVE  AdminInv'
<1>1. call' \in [AdminReq -> CallRec] /\ call'[r] = c /\ \A o \in AdminReq : o # r => call'[o] = call[o]
  BY DEF AdminInv, AdminTypes
<1>2. AdminTypes'
  BY <1>1 DEF AdminInv, AdminTypes, links
<1>3. NoneLeaks' /\ HookIsServed'
  BY <1>1 DEF AdminInv, NoneLeaks, HookIsServed, links
<1>4. ASSUME ~overlapped', restarts = 0 PROVE InTurn'
  <2>1. InTurn /\ \A o \in AdminReq : o # r => call'[o].pc = "over"
    BY <1>1, <1>4 DEF AdminInv
  <2>2. \A o \in AdminReq : call[o].pc # "drain"
    BY <1>4
  <2>3. UNCHANGED <<running, hook, adapter>>
    BY DEF links
  <2>4. hook # 0 => hook = running
    BY <2>1, <2>2 DEF InTurn
  <2> QED
    BY <1>1, <1>4, <2>1, <2>3, <2>4 DEF InTurn, Exists
<1> QED
  BY <1>2, <1>3, <1>4 DEF AdminInv

LEMMA BegunKeeps ==
  ASSUME AdminInv, NEW r \in AdminReq, NEW do \in {"create", "enable", "disable", "delete", "update"},
         NEW pc \in {"verify", "commit", "start", "stop"}, NEW c \in Config, NEW status \in Status,
         Begun(r, do, pc, status, c), UNCHANGED <<links, restarts>>,
         \/ row' = [status |-> status, config |-> c] /\ status = "enabled" /\ pc = "start"
         \/ row' = row /\ status = row.status /\ pc # "start"
  PROVE  AdminInv'
<1>1. PICK n : n = [do |-> do, pc |-> pc, seen |-> status, config |-> c, mine |-> 0]
  OBVIOUS
<1>2. n \in CallRec /\ n.pc = pc /\ n.seen = status /\ n.config = c
  BY <1>1 DEF CallRec
<1>3. call' = [call EXCEPT ![r] = n] /\ overlapped' = (overlapped \/ ~Quiet)
  BY <1>1 DEF Begun
<1>4. row' \in [status : Status \cup {"none", "deleted"}, config : Config \cup {"none"}]
      /\ (row'.status \in Status => row'.config \in Config) /\ row'.status = status
  BY DEF AdminInv, AdminTypes
<1>5. ASSUME ~overlapped', restarts = 0
      PROVE  /\ ~overlapped /\ (pc = "start" => row'.status = "enabled") /\ \A o \in AdminReq : call[o].pc = "over"
             /\ row'.status = "enabled" => running # 0 \/ pc \in {"start", "write"}
             /\ row'.status \in {"deleted", "error"} => running = 0
  <2>1. ~overlapped /\ InTurn /\ \A o \in AdminReq : call[o].pc = "over"
    BY <1>3, <1>5 DEF Quiet, AdminInv
  <2> QED
    BY <1>4, <2>1 DEF InTurn
<1>6. call[r].pc = "over" /\ r \in used' /\ used \subseteq used' /\ overlapped' \in BOOLEAN
  BY <1>3 DEF Begun, AdminInv, AdminTypes
<1>7. ~overlapped' /\ restarts = 0 =>
        /\ ~overlapped
        /\ \A o \in AdminReq : o # r => call[o].pc = "over"
        /\ n.pc # "over" => row'.status \in Status /\ n.seen = row'.status
        /\ n.pc = "start" => row'.status = "enabled"
        /\ n.pc = "write" => running = 0
        /\ row'.status = "enabled" => running # 0 \/ n.pc \in {"start", "write"}
        /\ row'.status \in {"deleted", "error"} => running = 0
  BY <1>2, <1>4, <1>5
<1> QED
  BY <1>2, <1>3, <1>4, <1>6, <1>7, CallMoves

LEMMA RequestsKeep ==
  ASSUME AdminInv, NEW r \in AdminReq,
         \/ \E c \in Config : Create(r, c) \/ LoadUpdate(r, c)
         \/ \E do \in {"enable", "disable", "delete"} : Load(r, do)
  PROVE  AdminInv'
<1>0. Exists => row.status \in Status /\ row.config \in Config /\ row = [status |-> row.status, config |-> row.config]
  BY DEF AdminInv, AdminTypes, Exists
<1>1. ASSUME NEW c \in Config, Create(r, c) PROVE AdminInv'
  <2>1. "enabled" \in Status
    BY DEF Status
  <2> QED
    BY <1>1, <2>1, BegunKeeps DEF Create
<1>2. ASSUME NEW c \in Config, LoadUpdate(r, c) PROVE AdminInv'
  <2>1. row.status \in Status /\ Begun(r, "update", "commit", row.status, c) /\ row' = row /\ UNCHANGED <<links, restarts>>
    BY <1>0, <1>2 DEF LoadUpdate
  <2> QED
    BY <2>1, BegunKeeps
<1>3. ASSUME NEW do \in {"enable", "disable", "delete"}, Load(r, do) PROVE AdminInv'
  <2>1. /\ row.status \in Status /\ row.config \in Config /\ row' = row /\ UNCHANGED <<links, restarts>>
        /\ Begun(r, do, IF do = "enable" THEN "verify" ELSE "stop", row.status, row.config)
    BY <1>0, <1>3 DEF Load
  <2>2. PICK pc \in {"verify", "stop"} : pc = IF do = "enable" THEN "verify" ELSE "stop"
    OBVIOUS
  <2>3. Begun(r, do, pc, row.status, row.config)
    BY <2>1, <2>2
  <2> QED
    BY <2>1, <2>2, <2>3, BegunKeeps
<1> QED
  BY <1>1, <1>2, <1>3

(* A request at a place, and where it goes.                                    *)
LEMMA CallTo ==
  ASSUME NEW c \in CallRec, NEW pc \in {"over", "start", "write", "stop"}, NEW seen \in Status
  PROVE  /\ [c EXCEPT !.pc = pc] \in CallRec /\ [c EXCEPT !.pc = pc].pc = pc
         /\ [c EXCEPT !.pc = pc].seen = c.seen /\ [c EXCEPT !.pc = pc].config = c.config
         /\ [c EXCEPT !.pc = pc].mine = c.mine
         /\ [c EXCEPT !.pc = pc, !.seen = seen] \in CallRec /\ [c EXCEPT !.pc = pc, !.seen = seen].pc = pc
         /\ [c EXCEPT !.pc = pc, !.seen = seen].seen = seen /\ [c EXCEPT !.pc = pc, !.seen = seen].config = c.config
  BY DEF CallRec, Status

(* A request that ends leaves the row as it says.                              *)
LEMMA OverKeeps ==
  ASSUME AdminInv, NEW r \in AdminReq, call' = CallOver(r), call[r].pc \notin {"over", "drain"},
         UNCHANGED <<links, used, overlapped, restarts>>,
         row' \in [status : Status \cup {"none", "deleted"}, config : Config \cup {"none"}],
         row'.status \in Status => row'.config \in Config,
         ~overlapped /\ restarts = 0 /\ InTurn =>
            /\ row'.status = "enabled" => running # 0
            /\ row'.status \in {"deleted", "error"} => running = 0
  PROVE  AdminInv'
<1>1. PICK c \in CallRec : c = call[r]
  BY DEF AdminInv, AdminTypes
<1>2. PICK n : n = [c EXCEPT !.pc = "over"]
  OBVIOUS
<1>3. n \in CallRec /\ n.pc = "over"
  BY <1>2 DEF CallRec
<1>4. call' = [call EXCEPT ![r] = n]
  BY <1>1, <1>2 DEF CallOver, AdminInv, AdminTypes
<1>5. r \in used' /\ used \subseteq used' /\ overlapped' \in BOOLEAN /\ UNCHANGED <<links, restarts>>
  BY DEF AdminInv, AdminTypes
<1>6. ~overlapped' /\ restarts = 0 =>
        /\ ~overlapped
        /\ \A o \in AdminReq : o # r => call[o].pc = "over"
        /\ n.pc # "over" => row'.status \in Status /\ n.seen = row'.status
        /\ n.pc = "start" => row'.status = "enabled"
        /\ n.pc = "write" => running = 0
        /\ row'.status = "enabled" => running # 0 \/ n.pc \in {"start", "write"}
        /\ row'.status \in {"deleted", "error"} => running = 0
  BY <1>3 DEF AdminInv, InTurn
<1> QED
  BY <1>3, <1>4, <1>5, <1>6, CallMoves

(* The row as a request writes its status.                                     *)
LEMMA SetIs ==
  ASSUME AdminInv, NEW r \in AdminReq, NEW status \in Status, Set(r, status)
  PROVE  /\ row' \in [status : Status \cup {"none", "deleted"}, config : Config \cup {"none"}]
         /\ row'.status \in Status => row'.config \in Config
         /\ row'.status \in {row.status, status}
         /\ Exists /\ call[r].seen = row.status => row'.status = status
  BY DEF AdminInv, AdminTypes, Set, Exists, Dirty

LEMMA UpdateKeeps ==
  ASSUME AdminInv, NEW r \in AdminReq, Update(r)
  PROVE  AdminInv'
<1>1. row' \in [status : Status \cup {"none", "deleted"}, config : Config \cup {"none"}]
      /\ (row'.status \in Status => row'.config \in Config)
  BY DEF Update, AdminInv, AdminTypes, Exists, Status
<1>2. InTurn => row'.status = IF row.status = "enabled" THEN "disabled" ELSE row.status
  BY DEF Update, InTurn, Exists
<1>3. InTurn => /\ row'.status = "enabled" => running # 0
                /\ row'.status \in {"deleted", "error"} => running = 0
  BY <1>2 DEF InTurn
<1> QED
  BY <1>1, <1>3, OverKeeps DEF Update

LEMMA VerifiedKeeps ==
  ASSUME AdminInv, NEW r \in AdminReq, Verified(r)
  PROVE  AdminInv'
<1>0. "enabled" \in Status
  BY DEF Status
<1>1. call[r].pc = "verify" /\ Set(r, "enabled") /\ UNCHANGED <<links, used, overlapped, restarts>>
  BY DEF Verified
<1>2. /\ row' \in [status : Status \cup {"none", "deleted"}, config : Config \cup {"none"}]
      /\ row'.status \in Status => row'.config \in Config
      /\ Exists /\ call[r].seen = row.status => row'.status = "enabled"
  BY <1>0, <1>1, SetIs
<1>3. CASE call' = CallOver(r) /\ ~Exists /\ Dirty(r, "enabled")
  <2>1. ~InTurn
    BY <1>1, <1>3 DEF InTurn
  <2> QED
    BY <1>1, <1>2, <1>3, <2>1, OverKeeps
<1>4. CASE call' = [call EXCEPT ![r].pc = "start", ![r].seen = "enabled"] /\ ~(~Exists /\ Dirty(r, "enabled"))
  <2>1. PICK c \in CallRec : c = call[r]
    BY DEF AdminInv, AdminTypes
  <2>2. PICK n : n = [c EXCEPT !.pc = "start", !.seen = "enabled"]
    OBVIOUS
  <2>3. n \in CallRec /\ n.pc = "start" /\ n.seen = "enabled" /\ n.config = c.config
    BY <1>0, <2>2 DEF CallRec
  <2>4. call' = [call EXCEPT ![r] = n]
    BY <1>4, <2>1, <2>2 DEF AdminInv, AdminTypes
  <2>5. r \in used' /\ used \subseteq used' /\ overlapped' \in BOOLEAN /\ UNCHANGED <<links, restarts>> /\ n.config \in Config
    BY <1>1, <2>1, <2>3 DEF AdminInv, AdminTypes
  <2>6. ~overlapped' /\ restarts = 0 =>
          /\ ~overlapped
          /\ \A o \in AdminReq : o # r => call[o].pc = "over"
          /\ n.pc # "over" => row'.status \in Status /\ n.seen = row'.status
          /\ n.pc = "start" => row'.status = "enabled"
          /\ n.pc = "write" => running = 0
          /\ row'.status = "enabled" => running # 0 \/ n.pc \in {"start", "write"}
          /\ row'.status \in {"deleted", "error"} => running = 0
    BY <1>0, <1>1, <1>2, <2>3 DEF AdminInv, InTurn
  <2> QED
    BY <1>1, <1>2, <2>3, <2>4, <2>5, <2>6, CallMoves
<1> QED
  BY <1>3, <1>4 DEF Verified

LEMMA NotVerifiedKeeps ==
  ASSUME AdminInv, NEW r \in AdminReq, NotVerified(r)
  PROVE  AdminInv'
<1>1. /\ row' \in [status : Status \cup {"none", "deleted"}, config : Config \cup {"none"}]
      /\ row'.status \in Status => row'.config \in Config
      /\ row' = row /\ call[r].pc = "verify"
  BY DEF NotVerified, AdminInv, AdminTypes
<1>2. InTurn => /\ row'.status = "enabled" => running # 0
                /\ row'.status \in {"deleted", "error"} => running = 0
  BY <1>1 DEF InTurn
<1> QED
  BY <1>1, <1>2, OverKeeps DEF NotVerified

LEMMA WritesKeep ==
  ASSUME AdminInv, NEW r \in AdminReq, Disabled(r) \/ Deleted(r)
  PROVE  AdminInv'
<1>1. CASE Disabled(r)
  <2>1. "disabled" \in Status /\ call[r].pc = "write" /\ Set(r, "disabled")
    BY <1>1 DEF Disabled, Status
  <2>2. InTurn => row'.status = "disabled"
    BY <2>1, SetIs DEF InTurn
  <2> QED
    BY <1>1, <2>1, <2>2, SetIs, OverKeeps DEF Disabled
<1>2. CASE Deleted(r)
  <2>1. /\ row' \in [status : Status \cup {"none", "deleted"}, config : Config \cup {"none"}]
        /\ row'.status \in Status => row'.config \in Config
    BY <1>2 DEF Deleted, AdminInv, AdminTypes, Status
  <2>2. InTurn => row'.status = "deleted" /\ running = 0
    BY <1>2 DEF Deleted, InTurn, AdminInv, AdminTypes
  <2> QED
    BY <1>2, <2>1, <2>2, OverKeeps DEF Deleted
<1> QED
  BY <1>1, <1>2

-----------------------------------------------------------------------------
(* The connections.                                                            *)

LEMMA AdapterTo ==
  ASSUME NEW a \in AdapterRec, NEW s \in {"up", "drain", "down"}
  PROVE  [a EXCEPT !.state = s] \in AdapterRec /\ [a EXCEPT !.state = s].state = s /\ [a EXCEPT !.state = s].config = a.config
  BY DEF AdapterRec

LEMMA OneAdapter ==
  ASSUME NEW s \in Seq(AdapterRec), NEW n \in 1 .. Len(s), NEW a \in AdapterRec
  PROVE  /\ [s EXCEPT ![n] = a] \in Seq(AdapterRec) /\ Len([s EXCEPT ![n] = a]) = Len(s)
         /\ DOMAIN [s EXCEPT ![n] = a] = DOMAIN s
         /\ [s EXCEPT ![n] = a][n] = a /\ \A m \in DOMAIN s : m # n => [s EXCEPT ![n] = a][m] = s[m]
  OBVIOUS

LEMMA NewAdapter ==
  ASSUME NEW s \in Seq(AdapterRec), NEW a \in AdapterRec
  PROVE  /\ Append(s, a) \in Seq(AdapterRec) /\ Len(Append(s, a)) = Len(s) + 1
         /\ DOMAIN Append(s, a) = 1 .. (Len(s) + 1) /\ Append(s, a)[Len(s) + 1] = a
         /\ \A m \in 1 .. Len(s) : Append(s, a)[m] = s[m]
  OBVIOUS

LEMMA StartKeeps ==
  ASSUME AdminInv, NEW r \in AdminReq, Start(r)
  PROVE  AdminInv'
<1>1. call[r].pc = "start" /\ call' = CallOver(r) /\ UNCHANGED <<used, overlapped, restarts>>
  BY DEF Start
<1>2. row \in [status : Status \cup {"none", "deleted"}, config : Config \cup {"none"}]
      /\ (row.status \in Status => row.config \in Config)
  BY DEF AdminInv, AdminTypes
<1>3. CASE AlreadyStarted /\ UNCHANGED <<row, links>>
  <2>1. InTurn => running # 0 /\ row'.status \notin {"deleted", "error"}
    BY <1>1, <1>3 DEF InTurn, AlreadyStarted
  <2> QED
    BY <1>1, <1>2, <1>3, <2>1, OverKeeps
<1>4. CASE ~AlreadyStarted /\ Set(r, "error") /\ UNCHANGED links
  <2>1. "error" \in Status
    BY DEF Status
  <2>2. InTurn => row'.status = "error" /\ running = 0
    BY <1>1, <1>4, <2>1, SetIs DEF InTurn, AlreadyStarted
  <2> QED
    BY <1>1, <1>4, <2>1, <2>2, SetIs, OverKeeps
<1>5. CASE ~AlreadyStarted /\ Opens(call[r].config) /\ UNCHANGED row
  <2>1. PICK c \in CallRec : c = call[r]
    BY DEF AdminInv, AdminTypes
  <2>2. PICK n : n = [c EXCEPT !.pc = "over"]
    OBVIOUS
  <2>3. n \in CallRec /\ n.pc = "over" /\ c.config \in Config
    BY <1>1, <2>1, <2>2 DEF CallRec, AdminInv, AdminTypes
  <2>4. call' \in [AdminReq -> CallRec] /\ call'[r] = n /\ \A o \in AdminReq : o # r => call'[o] = call[o]
    BY <1>1, <2>1, <2>2, <2>3 DEF CallOver, AdminInv, AdminTypes
  <2>5. PICK a : a = [config |-> c.config, state |-> "up"]
    OBVIOUS
  <2>6. a \in AdapterRec /\ a.state = "up" /\ a.config = c.config
    BY <2>3, <2>5 DEF AdapterRec
  <2>7. PICK k \in Nat : k = Len(adapter) /\ k + 1 # 0
    BY DEF AdminInv, AdminTypes
  <2>8. /\ running = 0 /\ adapter' = Append(adapter, a) /\ running' = k + 1
        /\ hook' = IF Mode[c.config] = "webhook" THEN k + 1 ELSE hook
    BY <1>5, <2>1, <2>5, <2>7 DEF Opens, AlreadyStarted
  <2>9. /\ adapter \in Seq(AdapterRec) /\ adapter' \in Seq(AdapterRec) /\ Len(adapter') = k + 1
        /\ DOMAIN adapter' = 1 .. (k + 1) /\ DOMAIN adapter = 1 .. k
        /\ adapter'[k + 1] = a /\ \A m \in 1 .. k : adapter'[m] = adapter[m]
    BY <2>6, <2>7, <2>8, NewAdapter DEF AdminInv, AdminTypes
  <2>10. AdminTypes'
    BY <1>1, <1>2, <1>5, <2>1, <2>3, <2>4, <2>7, <2>8, <2>9 DEF AdminInv, AdminTypes
  <2>11. NoneLeaks'
    <3>1. ASSUME NEW m \in 1 .. k PROVE /\ adapter'[m].state = "up" => running' = m
                                        /\ adapter'[m].state = "drain" => \E o \in AdminReq : call'[o].pc = "drain" /\ call'[o].mine = m
      <4>1. adapter'[m] = adapter[m] /\ m \in DOMAIN adapter /\ m # 0
        BY <2>9, <3>1, <2>7
      <4> QED
        BY <1>1, <2>4, <2>8, <4>1 DEF AdminInv, NoneLeaks
    <3> QED
      BY <2>6, <2>7, <2>8, <2>9, <3>1 DEF NoneLeaks
  <2>12. HookIsServed'
    <3>1. hook \in 0 .. k
      BY <2>7 DEF AdminInv, AdminTypes
    <3> QED
      BY <2>6, <2>7, <2>8, <2>9, <3>1 DEF AdminInv, HookIsServed
  <2>13. ASSUME ~overlapped', restarts' = 0 PROVE InTurn'
    <3>1. InTurn /\ (\A o \in AdminReq : o # r => call[o].pc = "over") /\ \A o \in AdminReq : call'[o].pc = "over"
      BY <1>1, <2>3, <2>4, <2>13 DEF AdminInv, InTurn
    <3>2. hook = 0
      BY <1>1, <2>8, <3>1 DEF InTurn
    <3>3. row'.status \notin {"deleted", "error"}
      BY <1>1, <1>5, <3>1, <2>1 DEF InTurn, Exists
    <3> QED
      BY <2>6, <2>7, <2>8, <2>9, <3>1, <3>2, <3>3 DEF InTurn
  <2> QED
    BY <2>10, <2>11, <2>12, <2>13 DEF AdminInv
<1> QED
  BY <1>3, <1>4, <1>5 DEF Start

LEMMA StopKeeps ==
  ASSUME AdminInv, NEW r \in AdminReq, Stop(r)
  PROVE  AdminInv'
<1>1. call[r].pc = "stop" /\ running' = 0 /\ UNCHANGED <<row, hook, used, overlapped, restarts>>
  BY DEF Stop
<1>2. PICK c \in CallRec : c = call[r]
  BY DEF AdminInv, AdminTypes
<1>3. CASE running = 0
  <2>1. PICK n : n = [c EXCEPT !.pc = "write"]
    OBVIOUS
  <2>2. n \in CallRec /\ n.pc = "write" /\ n.seen = c.seen
    BY <2>1 DEF CallRec
  <2>3. call' = [call EXCEPT ![r] = n] /\ UNCHANGED links
    BY <1>1, <1>2, <1>3, <2>1 DEF Stop, To, AdminInv, AdminTypes, links
  <2>4. /\ r \in used' /\ used \subseteq used' /\ overlapped' \in BOOLEAN /\ UNCHANGED <<links, restarts>>
        /\ row' \in [status : Status \cup {"none", "deleted"}, config : Config \cup {"none"}]
        /\ row'.status \in Status => row'.config \in Config
    BY <1>1, <2>3 DEF AdminInv, AdminTypes
  <2>5. ~overlapped' /\ restarts = 0 =>
          /\ ~overlapped
          /\ \A o \in AdminReq : o # r => call[o].pc = "over"
          /\ n.pc # "over" => row'.status \in Status /\ n.seen = row'.status
          /\ n.pc = "start" => row'.status = "enabled"
          /\ n.pc = "write" => running = 0
          /\ row'.status = "enabled" => running # 0 \/ n.pc \in {"start", "write"}
          /\ row'.status \in {"deleted", "error"} => running = 0
    BY <1>1, <1>2, <1>3, <2>2 DEF AdminInv, InTurn, Exists
  <2> QED
    BY <1>1, <2>2, <2>3, <2>4, <2>5, CallMoves
<1>4. CASE running # 0
  <2>1. PICK k \in DOMAIN adapter : k = running /\ k \in 1 .. Len(adapter) /\ k # 0 /\ k \in Nat
    BY <1>4 DEF AdminInv, AdminTypes
  <2>2. PICK n : n = [c EXCEPT !.pc = "drain", !.mine = k]
    OBVIOUS
  <2>3. n \in CallRec /\ n.pc = "drain" /\ n.seen = c.seen /\ n.mine = k
    BY <2>1, <2>2 DEF CallRec
  <2>4. call' = [call EXCEPT ![r] = n]
    BY <1>2, <1>4, <2>1, <2>2 DEF Stop, AdminInv, AdminTypes
  <2>5. call' \in [AdminReq -> CallRec] /\ call'[r] = n /\ \A o \in AdminReq : o # r => call'[o] = call[o]
    BY <2>3, <2>4 DEF AdminInv, AdminTypes
  <2>6. PICK a \in AdapterRec : a = adapter[k]
    BY <2>1 DEF AdminInv, AdminTypes
  <2>7. PICK b : b = [a EXCEPT !.state = "drain"]
    OBVIOUS
  <2>8. b \in AdapterRec /\ b.state = "drain" /\ b.config = a.config
    BY <2>7 DEF AdapterRec
  <2>9. adapter' = [adapter EXCEPT ![k] = b]
    BY <1>4, <2>1, <2>6, <2>7 DEF Stop
  <2>10. /\ adapter' \in Seq(AdapterRec) /\ Len(adapter') = Len(adapter) /\ DOMAIN adapter' = DOMAIN adapter
         /\ adapter'[k] = b /\ \A m \in DOMAIN adapter : m # k => adapter'[m] = adapter[m]
    BY <2>1, <2>8, <2>9, OneAdapter DEF AdminInv, AdminTypes
  <2>11. AdminTypes'
    BY <1>1, <2>1, <2>3, <2>5, <2>10 DEF AdminInv, AdminTypes
  <2>12. NoneLeaks'
    <3>1. ASSUME NEW m \in DOMAIN adapter, m # k
          PROVE  /\ adapter'[m].state # "up"
                 /\ adapter'[m].state = "drain" => \E o \in AdminReq : call'[o].pc = "drain" /\ call'[o].mine = m
      <4>1. adapter'[m] = adapter[m] /\ adapter[m].state # "up"
        BY <2>1, <2>10, <3>1 DEF AdminInv, NoneLeaks
      <4>2. ASSUME NEW o \in AdminReq, call[o].pc = "drain" PROVE call'[o] = call[o]
        BY <1>1, <2>5, <4>2
      <4> QED
        BY <3>1, <4>1, <4>2 DEF AdminInv, NoneLeaks
    <3> QED
      BY <2>3, <2>5, <2>8, <2>10, <3>1 DEF NoneLeaks
  <2>13. HookIsServed'
    <3>1. hook # 0 => hook \in DOMAIN adapter
      BY DEF AdminInv, AdminTypes
    <3> QED
      BY <1>1, <2>6, <2>8, <2>10, <3>1 DEF AdminInv, HookIsServed
  <2>14. ASSUME ~overlapped', restarts' = 0 PROVE InTurn'
    <3>1. InTurn /\ \A o \in AdminReq : o # r => call'[o].pc = "over" /\ call[o].pc = "over"
      BY <1>1, <2>5, <2>14 DEF AdminInv, InTurn
    <3>2. hook # 0 => hook = k
      BY <1>1, <2>1, <3>1 DEF InTurn
    <3> QED
      BY <1>1, <1>2, <2>3, <2>5, <3>1, <3>2 DEF InTurn, Exists
  <2> QED
    BY <2>11, <2>12, <2>13, <2>14 DEF AdminInv
<1> QED
  BY <1>3, <1>4

LEMMA AdapterDownKeeps ==
  ASSUME AdminInv, NEW r \in AdminReq, AdapterDown(r)
  PROVE  AdminInv'
<1>1. call[r].pc = "drain" /\ UNCHANGED <<row, running, used, overlapped, restarts>>
  BY DEF AdapterDown
<1>2. PICK c \in CallRec : c = call[r]
  BY DEF AdminInv, AdminTypes
<1>3. PICK k \in DOMAIN adapter : k = c.mine /\ k \in 1 .. Len(adapter) /\ k # 0
  BY <1>1, <1>2 DEF AdminInv, AdminTypes
<1>4. PICK n : n = [c EXCEPT !.pc = "write"]
  OBVIOUS
<1>5. n \in CallRec /\ n.pc = "write" /\ n.seen = c.seen
  BY <1>4 DEF CallRec
<1>6. call' \in [AdminReq -> CallRec] /\ call'[r] = n /\ \A o \in AdminReq : o # r => call'[o] = call[o]
  BY <1>2, <1>4, <1>5 DEF AdapterDown, To, AdminInv, AdminTypes
<1>7. PICK a \in AdapterRec : a = adapter[k]
  BY <1>3 DEF AdminInv, AdminTypes
<1>8. PICK b : b = [a EXCEPT !.state = "down"]
  OBVIOUS
<1>9. b \in AdapterRec /\ b.state = "down" /\ b.config = a.config
  BY <1>8 DEF AdapterRec
<1>10. adapter' = [adapter EXCEPT ![k] = b] /\ hook' = IF Mode[a.config] = "webhook" THEN 0 ELSE hook
  BY <1>2, <1>3, <1>7, <1>8 DEF AdapterDown, Leaves
<1>11. /\ adapter' \in Seq(AdapterRec) /\ Len(adapter') = Len(adapter) /\ DOMAIN adapter' = DOMAIN adapter
       /\ adapter'[k] = b /\ \A m \in DOMAIN adapter : m # k => adapter'[m] = adapter[m]
  BY <1>3, <1>9, <1>10, OneAdapter DEF AdminInv, AdminTypes
<1>12. hook' \in {0, hook}
  BY <1>10
<1>13. AdminTypes'
  <2>1. /\ row \in [status : Status \cup {"none", "deleted"}, config : Config \cup {"none"}]
        /\ row.status \in Status => row.config \in Config
        /\ adapter' \in Seq(AdapterRec) /\ running' \in 0 .. Len(adapter') /\ hook' \in 0 .. Len(adapter')
        /\ restarts' \in Nat /\ overlapped' \in BOOLEAN
    <3>1. 0 \in 0 .. Len(adapter) /\ hook \in 0 .. Len(adapter) /\ running \in 0 .. Len(adapter)
      BY <1>3 DEF AdminInv, AdminTypes
    <3> QED
      BY <1>1, <1>11, <1>12, <3>1 DEF AdminInv, AdminTypes
  <2>2. \A o \in AdminReq : /\ call'[o].pc \in {"verify", "start", "commit"} => call'[o].config \in Config
                            /\ call'[o].pc = "drain" => call'[o].mine \in 1 .. Len(adapter)
                            /\ call'[o].pc # "over" => o \in used
    BY <1>1, <1>5, <1>6 DEF AdminInv, AdminTypes
  <2> QED
    BY <1>1, <1>6, <1>11, <2>1, <2>2 DEF AdminTypes
<1>14. NoneLeaks'
  <2>1. ASSUME NEW m \in DOMAIN adapter, m # k
        PROVE  /\ adapter'[m].state = "up" => running' = m
               /\ adapter'[m].state = "drain" => \E o \in AdminReq : call'[o].pc = "drain" /\ call'[o].mine = m
    <3>1. adapter'[m] = adapter[m]
      BY <1>11, <2>1
    <3>2. ASSUME NEW o \in AdminReq, call[o].mine = m PROVE call'[o] = call[o]
      BY <1>2, <1>3, <1>6, <2>1, <3>2
    <3> QED
      BY <1>1, <3>1, <3>2 DEF AdminInv, NoneLeaks
  <2> QED
    BY <1>9, <1>11, <2>1 DEF NoneLeaks
<1>15. HookIsServed'
  <2>1. hook' # 0 => hook' = hook /\ hook \in DOMAIN adapter /\ Mode[adapter[hook].config] = "webhook" /\ adapter[hook].state # "down"
    BY <1>12 DEF AdminInv, AdminTypes, HookIsServed
  <2>2. hook' # 0 => hook # k
    BY <1>7, <1>10, <2>1
  <2> QED
    BY <1>11, <2>1, <2>2 DEF HookIsServed
<1>16. ASSUME ~overlapped', restarts' = 0 PROVE InTurn'
  <2>1. InTurn /\ \A o \in AdminReq : o # r => call'[o].pc = "over" /\ call[o].pc = "over"
    BY <1>1, <1>6, <1>16 DEF AdminInv, InTurn
  <2>2. running = 0 /\ (hook # 0 => hook = k)
    BY <1>1, <1>2, <1>3, <2>1 DEF InTurn
  <2>3. hook' = 0
    BY <1>3, <1>7, <1>10, <2>2 DEF AdminInv, HookIsServed
  <2> QED
    BY <1>1, <1>2, <1>5, <1>6, <2>1, <2>2, <2>3 DEF InTurn, Exists
<1> QED
  BY <1>13, <1>14, <1>15, <1>16 DEF AdminInv

(* The process ends: every link goes down, and an enabled channel comes back.  *)
LEMMA RestartKeeps ==
  ASSUME AdminInv, RestartAll
  PROVE  AdminInv'
<1>1. restarts' = restarts + 1 /\ UNCHANGED <<used, overlapped>>
  BY DEF RestartAll
<1>2. call' \in [AdminReq -> CallRec] /\ \A r \in AdminReq : call'[r].pc = "over"
  <2>1. \A r \in AdminReq : [call[r] EXCEPT !.pc = "over"] \in CallRec /\ [call[r] EXCEPT !.pc = "over"].pc = "over"
    BY DEF AdminInv, AdminTypes, CallRec
  <2> QED
    BY <2>1 DEF RestartAll
<1>3. PICK e : e = [n \in DOMAIN adapter |-> [adapter[n] EXCEPT !.state = "down"]]
  OBVIOUS
<1>4. /\ adapter \in Seq(AdapterRec) /\ e \in Seq(AdapterRec) /\ Len(e) = Len(adapter) /\ DOMAIN e = DOMAIN adapter
      /\ \A n \in DOMAIN e : e[n].state = "down"
  <2>1. adapter \in Seq(AdapterRec)
    BY DEF AdminInv, AdminTypes
  <2>2. ASSUME NEW n \in DOMAIN adapter PROVE e[n] \in AdapterRec /\ e[n].state = "down"
    <3>1. PICK a \in AdapterRec : a = adapter[n]
      BY <2>1
    <3>2. e[n] = [a EXCEPT !.state = "down"]
      BY <1>3, <3>1
    <3> QED
      BY <3>2, AdapterTo
  <2>3. DOMAIN adapter = 1 .. Len(adapter) /\ Len(adapter) \in Nat
    BY <2>1
  <2>4. e \in [1 .. Len(adapter) -> AdapterRec]
    BY <1>3, <2>2, <2>3
  <2>5. e \in Seq(AdapterRec)
    BY <2>3, <2>4 DEF Seq
  <2>6. Len(e) = Len(adapter)
    BY <2>3, <2>4, <2>5
  <2> QED
    BY <2>1, <2>2, <2>3, <2>4, <2>5, <2>6
<1>5. PICK k \in Nat : k = Len(adapter) /\ k + 1 # 0 /\ DOMAIN e = 1 .. k
  <2>1. Len(adapter) \in Nat /\ DOMAIN e = 1 .. Len(adapter)
    BY <1>4
  <2> QED
    BY <2>1
<1>6. restarts' \in Nat /\ restarts' # 0
  BY <1>1 DEF AdminInv, AdminTypes
<1>7. CASE /\ row.status = "enabled" /\ adapter' = Append(e, [config |-> row.config, state |-> "up"]) /\ running' = k + 1
           /\ hook' = (IF Mode[row.config] = "webhook" THEN k + 1 ELSE 0) /\ UNCHANGED row
  <2>1. row.config \in Config /\ row.status \in Status
    BY <1>7 DEF AdminInv, AdminTypes, Status
  <2>2. PICK a : a = [config |-> row.config, state |-> "up"]
    OBVIOUS
  <2>3. a \in AdapterRec /\ a.state = "up" /\ a.config = row.config
    BY <2>1, <2>2 DEF AdapterRec
  <2>4. /\ adapter' \in Seq(AdapterRec) /\ Len(adapter') = k + 1 /\ DOMAIN adapter' = 1 .. (k + 1)
        /\ adapter'[k + 1] = a /\ \A m \in 1 .. k : adapter'[m] = e[m]
    BY <1>4, <1>5, <1>7, <2>2, <2>3, NewAdapter
  <2>5. AdminTypes'
    BY <1>1, <1>2, <1>5, <1>6, <1>7, <2>1, <2>4 DEF AdminInv, AdminTypes
  <2>6. \A m \in DOMAIN adapter' : m = k + 1 \/ adapter'[m].state = "down"
    BY <1>4, <1>5, <2>4
  <2>7. NoneLeaks'
    BY <1>7, <2>3, <2>4, <2>6 DEF NoneLeaks
  <2>8. HookIsServed'
    BY <1>7, <2>3, <2>4 DEF HookIsServed
  <2> QED
    BY <1>6, <2>5, <2>7, <2>8 DEF AdminInv
<1>8. CASE /\ adapter' = e /\ running' = 0 /\ hook' = 0
           /\ row' = IF row.status = "enabled" THEN [row EXCEPT !.status = "error"] ELSE row
  <2>1. row' \in [status : Status \cup {"none", "deleted"}, config : Config \cup {"none"}]
        /\ (row'.status \in Status => row'.config \in Config)
    BY <1>8 DEF AdminInv, AdminTypes, Status
  <2>2. AdminTypes'
    BY <1>1, <1>2, <1>4, <1>5, <1>6, <1>8, <2>1 DEF AdminInv, AdminTypes
  <2>3. NoneLeaks' /\ HookIsServed'
    BY <1>4, <1>8 DEF NoneLeaks, HookIsServed
  <2> QED
    BY <1>6, <2>2, <2>3 DEF AdminInv
<1> QED
  BY <1>3, <1>5, <1>7, <1>8 DEF RestartAll

LEMMA AdminSteps ==
  ASSUME AdminInv, DNext
  PROVE  AdminInv'
  BY RequestsKeep, UpdateKeeps, VerifiedKeeps, NotVerifiedKeeps, StartKeeps, StopKeeps, AdapterDownKeeps, WritesKeep,
     RestartKeeps DEF DNext

LEMMA AdminMeans == AdminInv => DTypeOK /\ AdminHolds
<1> SUFFICES ASSUME AdminInv PROVE DTypeOK /\ AdminHolds
  OBVIOUS
<1>1. DTypeOK
  <2>1. \A n \in DOMAIN adapter : adapter[n] \in AdapterRec
    BY DEF AdminInv, AdminTypes
  <2>2. \A r \in AdminReq : call[r] \in CallRec
    BY DEF AdminInv, AdminTypes
  <2>3. /\ row.status \in Status \cup {"none", "deleted"} /\ row.config \in Config \cup {"none"}
        /\ running \in 0 .. Len(adapter) /\ hook \in 0 .. Len(adapter)
    BY DEF AdminInv, AdminTypes
  <2> QED
    BY <2>1, <2>2, <2>3 DEF DTypeOK, AdapterRec, CallRec
<1>2. CallbacksAreServed
  BY DEF AdminInv, HookIsServed, CallbacksAreServed
<1>3. InOrderSettled
  BY DEF AdminInv, InTurn, InOrderSettled, Quiet
<1> QED
  BY <1>1, <1>2, <1>3 DEF AdminInv, AdminHolds

-----------------------------------------------------------------------------
(* Who an identity of a channel is.                                            *)

CodeRec == [ext : Ext, digits : Digit, born : Nat, used : BOOLEAN]
ChatRec == [user : User, exists : BOOLEAN]
FileRec == [user : User, born : Nat, stored : BOOLEAN]
BindTypes ==
    /\ now \in Nat /\ code \in Seq(CodeRec) /\ \A c \in DOMAIN code : code[c].born <= now
    /\ issue \in [Place -> -1 .. MaxCodes] /\ \A p \in Place : issue[p] <= Len(code)
    /\ bound \in [Ext -> User \cup {Nobody}] /\ active \subseteq User
    /\ spent \subseteq [code : Nat, user : User, at : Nat]
ChatTypes ==
    /\ session \in Seq(ChatRec) /\ link \in [Place -> Nat] /\ \A p \in Place : link[p] <= Len(session)
    /\ workspace \subseteq User /\ waiting \in [Place -> Seq(FileRec)]
(* A code that has bound somebody is used, and bound him in its time.          *)
SpentOnce ==
    /\ \A x \in spent : x.code \in DOMAIN code /\ code[x.code].used /\ x.at <= code[x.code].born + Ttl
    /\ \A x, y \in spent : x.code = y.code => x = y
(* An identity that asks from one chat at a time: no code is newer than those  *)
(* its request is about to use up.                                             *)
LastOnly == \A e \in Ext \ raced :
    /\ \A c, d \in DOMAIN code : code[c].ext = e /\ ~code[c].used /\ code[d].ext = e /\ ~code[d].used => c = d
    /\ \A p, q \in Place : ExtOf[p] = e /\ ~Handles(p) /\ ExtOf[q] = e /\ ~Handles(q) => p = q
    /\ \A p \in Place : ExtOf[p] = e /\ ~Handles(p) => \A c \in DOMAIN code : c > issue[p] => code[c].ext # e
HeldBy(e, u) == \E x \in spent : code[x.code].ext = e /\ x.user = u
Owned ==
    /\ \A e \in Ext : bound[e] # Nobody => HeldBy(e, bound[e])
    /\ \A p \in Place : /\ link[p] # None => HeldBy(ExtOf[p], session[link[p]].user)
                        /\ \A f \in DOMAIN waiting[p] : HeldBy(ExtOf[p], waiting[p][f].user)
BindInv == BindTypes /\ ChatTypes /\ SpentOnce /\ LastOnly /\ Owned

LEMMA BindStarts == BInit => BindInv
<1> SUFFICES ASSUME BInit PROVE BindInv
  OBVIOUS
<1>1. code = << >> /\ session = << >> /\ Len(code) = 0 /\ Len(session) = 0 /\ DOMAIN code = {} /\ spent = {}
  BY DEF BInit
<1>2. issue \in [Place -> -1 .. MaxCodes] /\ \A p \in Place : issue[p] = -1
  BY BindingAssumption DEF BInit
<1>3. BindTypes
  BY <1>1, <1>2 DEF BInit, BindTypes
<1>4. waiting \in [Place -> Seq(FileRec)] /\ \A p \in Place : DOMAIN waiting[p] = {}
  BY DEF BInit
<1>5. ChatTypes
  BY <1>1, <1>4 DEF BInit, ChatTypes, None
<1>6. SpentOnce /\ LastOnly
  BY <1>1, <1>2 DEF SpentOnce, LastOnly, Handles
<1>7. Owned
  BY <1>4 DEF BInit, Owned
<1> QED
  BY <1>3, <1>5, <1>6, <1>7 DEF BindInv

LEMMA BindRests ==
  ASSUME BindInv, UNCHANGED bvars
  PROVE  BindInv'
<1>1. \A e, u : HeldBy(e, u)' <=> HeldBy(e, u)
  BY DEF bvars, HeldBy
<1> QED
  BY <1>1 DEF bvars, BindInv, BindTypes, ChatTypes, SpentOnce, LastOnly, Handles, Owned

(* What the codes tell is kept while the chats stay as they are.               *)
LEMMA CodesKeep ==
  ASSUME BindInv, UNCHANGED chats, BindTypes', SpentOnce', LastOnly',
         spent \subseteq spent', \A c \in DOMAIN code : c \in DOMAIN code' /\ code'[c].ext = code[c].ext,
         \A e \in Ext : bound'[e] # Nobody => bound'[e] = bound[e] \/ (\E x \in spent' : code'[x.code].ext = e /\ x.user = bound'[e])
  PROVE  BindInv'
<1>1. ChatTypes'
  BY DEF BindInv, ChatTypes, chats
<1>2. ASSUME NEW e, NEW u, HeldBy(e, u) PROVE \E x \in spent' : code'[x.code].ext = e /\ x.user = u
  BY <1>2 DEF BindInv, SpentOnce, HeldBy
<1>3. \A e \in Ext : bound'[e] # Nobody => \E x \in spent' : code'[x.code].ext = e /\ x.user = bound'[e]
  BY <1>2 DEF BindInv, Owned
<1>4. \A p \in Place : link[p] # None => \E x \in spent' : code'[x.code].ext = ExtOf[p] /\ x.user = session[link[p]].user
  BY <1>2 DEF BindInv, Owned
<1>5. \A p \in Place : \A f \in DOMAIN waiting[p] :
        \E x \in spent' : code'[x.code].ext = ExtOf[p] /\ x.user = waiting[p][f].user
  BY <1>2 DEF BindInv, Owned
<1>6. Owned'
  BY <1>3, <1>4, <1>5 DEF Owned, HeldBy, chats
<1> QED
  BY <1>1, <1>6 DEF BindInv

(* And the other way round.                                                    *)
LEMMA ChatsKeep ==
  ASSUME BindInv, UNCHANGED <<now, bound, active, codes>>, ChatTypes',
         \A p \in Place : /\ link'[p] # None => HeldBy(ExtOf[p], session'[link'[p]].user)
                          /\ \A f \in DOMAIN waiting'[p] : HeldBy(ExtOf[p], waiting'[p][f].user)
  PROVE  BindInv'
<1>1. BindTypes' /\ SpentOnce' /\ LastOnly'
  BY DEF BindInv, BindTypes, SpentOnce, LastOnly, Handles, codes
<1>2. UNCHANGED <<spent, code, bound>>
  BY DEF codes
<1>3. Owned'
  BY <1>2 DEF BindInv, Owned, HeldBy
<1> QED
  BY <1>1, <1>3 DEF BindInv

-----------------------------------------------------------------------------
(* The codes.                                                                  *)

LEMMA AskCodeKeeps ==
  ASSUME BindInv, NEW p \in Place, AskCode(p)
  PROVE  BindInv'
<1>1. /\ Handles(p) /\ Len(code) < MaxCodes /\ issue' = [issue EXCEPT ![p] = Len(code)]
      /\ raced' = (IF \E q \in Place \ {p} : ~Handles(q) /\ ExtOf[q] = ExtOf[p] THEN raced \cup {ExtOf[p]} ELSE raced)
      /\ UNCHANGED <<now, code, bound, active, chats, spent>>
  BY DEF AskCode
<1>2. Len(code) \in Nat /\ DOMAIN code = 1 .. Len(code)
  BY DEF BindInv, BindTypes
<1>3. issue' \in [Place -> -1 .. MaxCodes] /\ issue'[p] = Len(code) /\ \A q \in Place : q # p => issue'[q] = issue[q]
  BY <1>1, <1>2, BindingAssumption DEF BindInv, BindTypes
<1>4. BindTypes'
  BY <1>1, <1>2, <1>3 DEF BindInv, BindTypes
<1>5. SpentOnce'
  BY <1>1 DEF BindInv, SpentOnce
<1>6. ASSUME NEW e \in Ext \ raced'
      PROVE  /\ \A c, d \in DOMAIN code : code[c].ext = e /\ ~code[c].used /\ code[d].ext = e /\ ~code[d].used => c = d
             /\ \A a, b \in Place : ExtOf[a] = e /\ ~Handles(a)' /\ ExtOf[b] = e /\ ~Handles(b)' => a = b
             /\ \A a \in Place : ExtOf[a] = e /\ ~Handles(a)' => \A c \in DOMAIN code : c > issue'[a] => code[c].ext # e
  <2>1. e \in Ext \ raced
    BY <1>1, <1>6
  <2>2. ASSUME ExtOf[p] = e, NEW q \in Place, q # p, ~Handles(q), ExtOf[q] = e PROVE FALSE
    BY <1>1, <1>6, <2>2
  <2>3. \A a \in Place : a # p => (Handles(a)' <=> Handles(a))
    BY <1>3 DEF Handles
  <2>4. \A a \in Place : ExtOf[a] = e /\ ~Handles(a)' => \A c \in DOMAIN code : c > issue'[a] => code[c].ext # e
    BY <1>2, <1>3, <2>1, <2>3 DEF BindInv, LastOnly
  <2> QED
    BY <2>1, <2>2, <2>3, <2>4 DEF BindInv, LastOnly
<1>7. LastOnly'
  BY <1>1, <1>6 DEF LastOnly
<1> QED
  BY <1>1, <1>4, <1>5, <1>7, CodesKeep DEF BindInv, Owned

LEMMA GiveCodeKeeps ==
  ASSUME BindInv, NEW p \in Place, NEW d \in Digit, GiveCode(p, d)
  PROVE  BindInv'
<1>1. /\ ~Handles(p) /\ issue' = [issue EXCEPT ![p] = -1]
      /\ UNCHANGED <<now, bound, active, chats, spent, raced>>
  BY DEF GiveCode
<1>2. PICK k \in Nat : k = Len(code) /\ DOMAIN code = 1 .. k
  BY DEF BindInv, BindTypes
<1>3. PICK e0 \in Ext : e0 = ExtOf[p]
  BY BindingAssumption
<1>4. PICK n : n = [ext |-> e0, digits |-> d, born |-> now, used |-> FALSE]
  OBVIOUS
<1>5. n \in CodeRec /\ n.ext = e0 /\ n.born = now /\ ~n.used
  BY <1>4 DEF CodeRec, BindInv, BindTypes
<1>6. PICK s : s = UsedUp(p)
  OBVIOUS
<1>7. ASSUME NEW c \in 1 .. k
      PROVE  /\ s[c] \in CodeRec /\ s[c].ext = code[c].ext /\ s[c].born = code[c].born
             /\ code[c].used => s[c].used
             /\ c <= issue[p] /\ code[c].ext = e0 => s[c].used
  <2>1. PICK x \in CodeRec : x = code[c]
    BY <1>2 DEF BindInv, BindTypes
  <2>2. s[c] = IF c <= issue[p] /\ x.ext = e0 THEN [x EXCEPT !.used = TRUE] ELSE x
    BY <1>2, <1>3, <1>6, <2>1 DEF UsedUp
  <2>3. [x EXCEPT !.used = TRUE] \in CodeRec /\ [x EXCEPT !.used = TRUE].ext = x.ext /\ [x EXCEPT !.used = TRUE].born = x.born
        /\ [x EXCEPT !.used = TRUE].used
    BY DEF CodeRec
  <2> QED
    BY <2>1, <2>2, <2>3
<1>8. s \in [1 .. k -> CodeRec]
  BY <1>2, <1>6, <1>7 DEF UsedUp
<1>9. s \in Seq(CodeRec) /\ Len(s) = k
  BY <1>2, <1>8
<1>10. code' = Append(s, n)
  BY <1>3, <1>4, <1>6 DEF GiveCode
<1>11. code' \in Seq(CodeRec) /\ Len(code') = k + 1 /\ DOMAIN code' = 1 .. (k + 1) /\ code'[k + 1] = n
       /\ \A c \in 1 .. k : code'[c] = s[c]
  BY <1>2, <1>5, <1>9, <1>10
<1>12. issue' \in [Place -> -1 .. MaxCodes] /\ Handles(p)' /\ \A q \in Place : q # p => issue'[q] = issue[q]
  BY <1>1, BindingAssumption DEF BindInv, BindTypes, Handles
<1>13. \A q \in Place : issue'[q] <= k + 1
  BY <1>1, <1>2, <1>12 DEF BindInv, BindTypes, Handles
<1>14. \A c \in DOMAIN code' : code'[c].born <= now
  <2>1. \A c \in 1 .. k : s[c].born = code[c].born /\ code[c].born <= now
    BY <1>2, <1>7 DEF BindInv, BindTypes
  <2>2. now \in Nat /\ n.born <= now
    BY <1>5 DEF BindInv, BindTypes
  <2>3. \A c \in DOMAIN code' : c \in 1 .. k \/ c = k + 1
    BY <1>2, <1>11
  <2> QED
    BY <1>11, <2>1, <2>2, <2>3
<1>15. BindTypes'
  BY <1>1, <1>11, <1>12, <1>13, <1>14 DEF BindInv, BindTypes
<1>16. SpentOnce'
  <2>1. \A x \in spent : x.code \in 1 .. k
    BY <1>2 DEF BindInv, SpentOnce
  <2> QED
    BY <1>1, <1>2, <1>7, <1>11, <2>1 DEF BindInv, SpentOnce
<1>17. ASSUME NEW e \in Ext \ raced
       PROVE  /\ \A b, c \in DOMAIN code' : code'[b].ext = e /\ ~code'[b].used /\ code'[c].ext = e /\ ~code'[c].used => b = c
              /\ \A a, b \in Place : ExtOf[a] = e /\ ~Handles(a)' /\ ExtOf[b] = e /\ ~Handles(b)' => a = b
              /\ \A a \in Place : ExtOf[a] = e /\ ~Handles(a)' => \A c \in DOMAIN code' : c > issue'[a] => code'[c].ext # e
  <2>1. \A a \in Place : a # p => (Handles(a)' <=> Handles(a))
    BY <1>12 DEF Handles
  <2>2. \A c \in 1 .. k : code'[c].ext = code[c].ext /\ (code[c].used => code'[c].used)
    BY <1>7, <1>11
  <2>3. \A a \in Place : ExtOf[a] = e /\ ~Handles(a)' => a # p /\ ~Handles(a) /\ e # e0
    BY <1>1, <1>3, <1>12, <1>17, <2>1 DEF BindInv, LastOnly
  <2>4. e = e0 => \A c \in 1 .. k : code'[c].ext = e => code'[c].used
    <3> SUFFICES ASSUME e = e0, NEW c \in 1 .. k, code'[c].ext = e PROVE code'[c].used
      OBVIOUS
    <3>1. code[c].ext = e /\ ~(c > issue[p])
      BY <1>1, <1>2, <1>3, <1>17, <2>2 DEF BindInv, LastOnly
    <3>2. issue[p] \in Int
      BY DEF BindInv, BindTypes
    <3> QED
      BY <1>7, <1>11, <3>1, <3>2
  <2>5. \A b, c \in DOMAIN code' : code'[b].ext = e /\ ~code'[b].used /\ code'[c].ext = e /\ ~code'[c].used => b = c
    <3>1. CASE e = e0
      BY <1>2, <1>11, <2>4, <3>1
    <3>2. CASE e # e0
      <4>1. \A c \in DOMAIN code' : code'[c].ext = e => c \in 1 .. k
        BY <1>2, <1>5, <1>11, <3>2
      <4> QED
        BY <1>2, <1>17, <2>2, <4>1 DEF BindInv, LastOnly
    <3> QED
      BY <3>1, <3>2
  <2>6. \A a \in Place : ExtOf[a] = e /\ ~Handles(a)' => \A c \in DOMAIN code' : c > issue'[a] => code'[c].ext # e
    <3> SUFFICES ASSUME NEW a \in Place, ExtOf[a] = e, ~Handles(a)', NEW c \in 1 .. (k + 1), c > issue'[a], code'[c].ext = e PROVE FALSE
      BY <1>11
    <3>1. a # p /\ ~Handles(a) /\ e # e0 /\ issue'[a] = issue[a]
      BY <1>12, <2>3
    <3>2. c \in 1 .. k
      BY <1>2, <1>5, <1>11, <3>1
    <3> QED
      BY <1>2, <1>17, <2>2, <3>1, <3>2 DEF BindInv, LastOnly
  <2> QED
    BY <1>17, <2>1, <2>3, <2>5, <2>6 DEF BindInv, LastOnly
<1>18. LastOnly'
  BY <1>1, <1>17 DEF LastOnly
<1>19. \A c \in DOMAIN code : c \in DOMAIN code' /\ code'[c].ext = code[c].ext
  BY <1>2, <1>7, <1>11
<1> QED
  BY <1>1, <1>15, <1>16, <1>18, <1>19, CodesKeep

LEMMA ConsumeKeeps ==
  ASSUME BindInv, NEW u \in User, NEW d \in Digit, Consume(u, d)
  PROVE  BindInv'
<1>1. PICK c \in DOMAIN code :
        /\ Matching(d) = {c} /\ now <= code[c].born + Ttl /\ bound[code[c].ext] = Nobody
        /\ bound' = [bound EXCEPT ![code[c].ext] = u]
        /\ code' = [code EXCEPT ![c].used = TRUE]
        /\ spent' = spent \cup {[code |-> c, user |-> u, at |-> now]}
  BY DEF Consume
<1>2. UNCHANGED <<now, issue, active, chats, raced>>
  BY DEF Consume
<1>3. PICK x \in CodeRec : x = code[c]
  BY DEF BindInv, BindTypes
<1>4. PICK n : n = [x EXCEPT !.used = TRUE]
  OBVIOUS
<1>5. n \in CodeRec /\ n.used /\ n.ext = x.ext /\ n.born = x.born
  BY <1>4 DEF CodeRec
<1>6. code' = [code EXCEPT ![c] = n] /\ code \in Seq(CodeRec) /\ c \in 1 .. Len(code) /\ c \in Nat
  BY <1>1, <1>3, <1>4 DEF BindInv, BindTypes
<1>7. /\ code' \in Seq(CodeRec) /\ Len(code') = Len(code) /\ DOMAIN code' = DOMAIN code /\ code'[c] = n
      /\ \A b \in DOMAIN code : b # c => code'[b] = code[b]
  BY <1>5, <1>6
<1>8. \A b \in DOMAIN code : code'[b].ext = code[b].ext /\ code'[b].born = code[b].born /\ (code[b].used => code'[b].used)
  BY <1>3, <1>5, <1>7
<1>9. PICK y : y = [code |-> c, user |-> u, at |-> now]
  OBVIOUS
<1>10. y \in [code : Nat, user : User, at : Nat] /\ y.code = c /\ y.user = u /\ y.at = now
  BY <1>6, <1>9 DEF BindInv, BindTypes
<1>11. spent' = spent \cup {y}
  BY <1>1, <1>9
<1>12. x.ext \in Ext /\ bound' = [bound EXCEPT ![x.ext] = u]
  BY <1>1, <1>3 DEF CodeRec
<1>13. bound' \in [Ext -> User \cup {Nobody}] /\ bound'[x.ext] = u /\ \A e \in Ext : e # x.ext => bound'[e] = bound[e]
  BY <1>12 DEF BindInv, BindTypes
<1>14. BindTypes'
  BY <1>2, <1>7, <1>8, <1>10, <1>11, <1>13 DEF BindInv, BindTypes
<1>15. \A z \in spent : z.code # c
  <2>1. ~code[c].used
    BY <1>1 DEF Matching
  <2> QED
    BY <2>1 DEF BindInv, SpentOnce
<1>16. SpentOnce'
  <2>1. \A z \in spent' : z.code \in DOMAIN code' /\ code'[z.code].used /\ z.at <= code'[z.code].born + Ttl
    BY <1>1, <1>3, <1>5, <1>7, <1>8, <1>10, <1>11 DEF BindInv, SpentOnce
  <2>2. \A z, w \in spent' : z.code = w.code => z = w
    BY <1>10, <1>11, <1>15 DEF BindInv, SpentOnce
  <2> QED
    BY <2>1, <2>2 DEF SpentOnce
<1>17. LastOnly'
  BY <1>2, <1>7, <1>8 DEF BindInv, LastOnly, Handles
<1>18. \A e \in Ext : bound'[e] # Nobody => bound'[e] = bound[e] \/ \E z \in spent' : code'[z.code].ext = e /\ z.user = bound'[e]
  BY <1>5, <1>7, <1>10, <1>11, <1>13
<1> QED
  BY <1>2, <1>7, <1>8, <1>11, <1>14, <1>16, <1>17, <1>18, CodesKeep

LEMMA IdentitiesKeep ==
  ASSUME BindInv, (\E e \in Ext : Unbind(e)) \/ (\E u \in User : Leave(u)) \/ Tick
  PROVE  BindInv'
<1>1. /\ UNCHANGED <<chats, codes>> /\ now' \in Nat /\ now <= now' /\ active' \subseteq active
      /\ bound' \in [Ext -> User \cup {Nobody}]
      /\ \A e \in Ext : bound'[e] # Nobody => bound'[e] = bound[e]
  <2>1. ASSUME NEW e \in Ext, Unbind(e) PROVE bound' \in [Ext -> User \cup {Nobody}] /\ \A f \in Ext : bound'[f] # Nobody => bound'[f] = bound[f]
    BY <2>1 DEF Unbind, BindInv, BindTypes
  <2> QED
    BY <2>1 DEF Unbind, Leave, Tick, BindInv, BindTypes
<1>2. UNCHANGED <<code, issue, spent, raced>>
  BY <1>1 DEF codes
<1>3. BindTypes'
  <2>0. \A c \in DOMAIN code : code[c] \in CodeRec
    BY DEF BindInv, BindTypes
  <2>1. \A c \in DOMAIN code : code[c].born \in Nat
    BY <2>0 DEF CodeRec
  <2> QED
    BY <1>1, <1>2, <2>1 DEF BindInv, BindTypes
<1>4. SpentOnce' /\ LastOnly'
  BY <1>2 DEF BindInv, SpentOnce, LastOnly, Handles
<1> QED
  BY <1>1, <1>2, <1>3, <1>4, CodesKeep

-----------------------------------------------------------------------------
(* The chats of an identity.                                                   *)

LEMMA NewChatIs ==
  ASSUME NEW s \in Seq(ChatRec), NEW u \in User
  PROVE  /\ Append(s, [user |-> u, exists |-> TRUE]) \in Seq(ChatRec)
         /\ Len(Append(s, [user |-> u, exists |-> TRUE])) = Len(s) + 1
         /\ Append(s, [user |-> u, exists |-> TRUE])[Len(s) + 1].user = u
         /\ \A n \in 1 .. Len(s) : Append(s, [user |-> u, exists |-> TRUE])[n] = s[n]
<1>1. PICK c : c = [user |-> u, exists |-> TRUE]
  OBVIOUS
<1>2. c \in ChatRec /\ c.user = u
  BY <1>1 DEF ChatRec
<1>3. /\ Append(s, c) \in Seq(ChatRec) /\ Len(Append(s, c)) = Len(s) + 1 /\ Append(s, c)[Len(s) + 1] = c
      /\ \A n \in 1 .. Len(s) : Append(s, c)[n] = s[n]
  BY <1>2
<1> QED
  BY <1>1, <1>2, <1>3

(* The session that a message of a bound chat goes to.                         *)
LEMMA SessionOf ==
  ASSUME BindInv, NEW p \in Place, Bound(p)
  PROVE  /\ Resolved(p) \in User /\ HeldBy(ExtOf[p], Resolved(p))
         /\ SessionsOf(p) \in Seq(ChatRec) /\ Len(session) <= Len(SessionsOf(p))
         /\ \A n \in 1 .. Len(session) : SessionsOf(p)[n] = session[n]
         /\ SessionHere(p) \in 1 .. Len(SessionsOf(p)) /\ HeldBy(ExtOf[p], SessionsOf(p)[SessionHere(p)].user)
<1>1. ExtOf[p] \in Ext
  BY BindingAssumption
<1>2. Resolved(p) = bound[ExtOf[p]] /\ Resolved(p) \in active /\ Resolved(p) # Nobody
  BY DEF Bound, Resolved
<1>3. Resolved(p) \in User /\ HeldBy(ExtOf[p], Resolved(p))
  BY <1>1, <1>2 DEF BindInv, BindTypes, Owned
<1>4. session \in Seq(ChatRec) /\ link[p] \in Nat /\ link[p] <= Len(session) /\ Len(session) \in Nat
  BY DEF BindInv, ChatTypes
<1>5. CASE NeedsOne(p)
  <2>1. PICK u \in User : u = Resolved(p)
    BY <1>3
  <2>2. SessionsOf(p) = Append(session, [user |-> u, exists |-> TRUE]) /\ SessionHere(p) = Len(session) + 1
    BY <1>5, <2>1 DEF SessionsOf, SessionHere, Opened
  <2>3. /\ SessionsOf(p) \in Seq(ChatRec) /\ Len(SessionsOf(p)) = Len(session) + 1
        /\ SessionsOf(p)[Len(session) + 1].user = u /\ \A n \in 1 .. Len(session) : SessionsOf(p)[n] = session[n]
    BY <1>4, <2>2, NewChatIs
  <2> QED
    BY <1>3, <1>4, <2>1, <2>2, <2>3
<1>6. CASE ~NeedsOne(p)
  <2>1. SessionsOf(p) = session /\ SessionHere(p) = link[p] /\ link[p] # 0
    BY <1>6 DEF SessionsOf, SessionHere, NeedsOne, None
  <2> QED
    BY <1>3, <1>4, <2>1 DEF BindInv, Owned, None
<1> QED
  BY <1>5, <1>6

(* One chat goes to another session, and the sessions there were stay whose    *)
(* they are.                                                                   *)
LEMMA LinkKeeps ==
  ASSUME BindInv, NEW p \in Place, NEW n \in Nat, UNCHANGED <<now, bound, active, codes>>,
         session' \in Seq(ChatRec), Len(session) <= Len(session'),
         \A m \in 1 .. Len(session) : session'[m].user = session[m].user,
         link' = [link EXCEPT ![p] = n], n \in 1 .. Len(session'), HeldBy(ExtOf[p], session'[n].user),
         workspace' \subseteq User, waiting' \in [Place -> Seq(FileRec)],
         \A q \in Place : \A f \in DOMAIN waiting'[q] : HeldBy(ExtOf[q], waiting'[q][f].user)
  PROVE  BindInv'
<1>1. link' \in [Place -> Nat] /\ link'[p] = n /\ \A q \in Place : q # p => link'[q] = link[q]
  BY DEF BindInv, ChatTypes
<1>2. \A q \in Place : link[q] \in Nat /\ link[q] <= Len(session) /\ Len(session) \in Nat /\ Len(session') \in Nat
  BY DEF BindInv, ChatTypes
<1>3. ChatTypes'
  BY <1>1, <1>2 DEF ChatTypes
<1>4. ASSUME NEW q \in Place, link'[q] # None PROVE HeldBy(ExtOf[q], session'[link'[q]].user)
  <2>1. CASE q = p
    BY <1>1, <2>1
  <2>2. CASE q # p
    <3>1. link'[q] = link[q] /\ link[q] \in 1 .. Len(session)
      BY <1>1, <1>2, <1>4, <2>2 DEF None
    <3> QED
      BY <1>4, <3>1 DEF BindInv, Owned
  <2> QED
    BY <2>1, <2>2
<1> QED
  BY <1>3, <1>4, ChatsKeep

LEMMA TextKeeps ==
  ASSUME BindInv, NEW p \in Place, TextMessage(p)
  PROVE  BindInv'
<1>1. /\ Bound(p) /\ session' = SessionsOf(p) /\ link' = [link EXCEPT ![p] = SessionHere(p)]
      /\ waiting' = [waiting EXCEPT ![p] = <<>>] /\ workspace' = Workspaces(p) /\ UNCHANGED <<now, bound, active, codes>>
  BY DEF TextMessage
<1>2. PICK n \in 1 .. Len(session') : n = SessionHere(p) /\ n \in Nat
  BY <1>1, SessionOf
<1>3. /\ session' \in Seq(ChatRec) /\ Len(session) <= Len(session') /\ HeldBy(ExtOf[p], session'[n].user)
      /\ \A m \in 1 .. Len(session) : session'[m].user = session[m].user
  BY <1>1, <1>2, SessionOf
<1>4. workspace' \subseteq User
  BY <1>1, SessionOf DEF Workspaces, BindInv, ChatTypes
<1>5. waiting' \in [Place -> Seq(FileRec)] /\ waiting'[p] = <<>> /\ \A q \in Place : q # p => waiting'[q] = waiting[q]
  BY <1>1 DEF BindInv, ChatTypes
<1>6. \A q \in Place : \A f \in DOMAIN waiting'[q] : HeldBy(ExtOf[q], waiting'[q][f].user)
  BY <1>5 DEF BindInv, Owned
<1>7. link' = [link EXCEPT ![p] = n]
  BY <1>1, <1>2
<1> QED
  BY <1>1, <1>2, <1>3, <1>4, <1>5, <1>6, <1>7, LinkKeeps

LEMMA NewChatKeeps ==
  ASSUME BindInv, NEW p \in Place, NewChat(p)
  PROVE  BindInv'
<1>1. /\ Bound(p) /\ session' = Append(SessionsOf(p), [user |-> Resolved(p), exists |-> TRUE])
      /\ link' = [link EXCEPT ![p] = Len(session')] /\ UNCHANGED <<now, bound, active, workspace, waiting, codes>>
  BY DEF NewChat
<1>2. PICK u \in User : u = Resolved(p) /\ HeldBy(ExtOf[p], u)
  BY <1>1, SessionOf
<1>3. PICK s \in Seq(ChatRec) : s = SessionsOf(p) /\ Len(session) <= Len(s) /\ \A n \in 1 .. Len(session) : s[n] = session[n]
  BY <1>1, SessionOf
<1>4. session' = Append(s, [user |-> u, exists |-> TRUE])
  BY <1>1, <1>2, <1>3
<1>5. /\ session' \in Seq(ChatRec) /\ Len(session') = Len(s) + 1 /\ session'[Len(s) + 1].user = u
      /\ \A n \in 1 .. Len(s) : session'[n] = s[n]
  BY <1>4, NewChatIs
<1>6. Len(s) \in Nat /\ Len(session) \in Nat
  BY <1>3 DEF BindInv, ChatTypes
<1>7. PICK n \in Nat : n = Len(session') /\ n = Len(s) + 1 /\ n \in 1 .. Len(session')
  BY <1>5, <1>6
<1>8. Len(session) <= Len(session') /\ (\A m \in 1 .. Len(session) : session'[m].user = session[m].user)
      /\ HeldBy(ExtOf[p], session'[n].user) /\ link' = [link EXCEPT ![p] = n]
  BY <1>1, <1>2, <1>3, <1>5, <1>6, <1>7
<1>9. workspace' \subseteq User /\ waiting' \in [Place -> Seq(FileRec)]
      /\ \A q \in Place : \A f \in DOMAIN waiting'[q] : HeldBy(ExtOf[q], waiting'[q][f].user)
  BY <1>1 DEF BindInv, ChatTypes, Owned
<1> QED
  BY <1>1, <1>5, <1>7, <1>8, <1>9, LinkKeeps

LEMMA SwitchKeeps ==
  ASSUME BindInv, NEW p \in Place, Switch(p)
  PROVE  BindInv'
<1>1. PICK s \in DOMAIN session : Mine(p, s) /\ link' = [link EXCEPT ![p] = s]
  BY DEF Switch
<1>2. Bound(p) /\ session' = SessionsOf(p) /\ UNCHANGED <<now, bound, active, workspace, waiting, codes>>
  BY DEF Switch
<1>3. Len(session) \in Nat /\ s \in 1 .. Len(session) /\ s \in Nat
  BY DEF BindInv, ChatTypes
<1>4. /\ session' \in Seq(ChatRec) /\ Len(session) <= Len(session')
      /\ \A m \in 1 .. Len(session) : session'[m] = session[m]
  BY <1>2, SessionOf
<1>5. s \in 1 .. Len(session')
  BY <1>3, <1>4
<1>6. HeldBy(ExtOf[p], session'[s].user)
  BY <1>1, <1>2, <1>3, <1>4, SessionOf DEF Mine
<1>7. workspace' \subseteq User /\ waiting' \in [Place -> Seq(FileRec)]
      /\ \A q \in Place : \A f \in DOMAIN waiting'[q] : HeldBy(ExtOf[q], waiting'[q][f].user)
  BY <1>2 DEF BindInv, ChatTypes, Owned
<1>8. \A m \in 1 .. Len(session) : session'[m].user = session[m].user
  BY <1>4
<1> QED
  BY <1>1, <1>2, <1>3, <1>4, <1>5, <1>6, <1>7, <1>8, LinkKeeps

(* The sessions change, and no chat goes elsewhere.                            *)
LEMMA SessionsKeep ==
  ASSUME BindInv, UNCHANGED <<now, bound, active, link, workspace, waiting, codes>>,
         session' \in Seq(ChatRec), Len(session) <= Len(session'),
         \A m \in 1 .. Len(session) : session'[m].user = session[m].user
  PROVE  BindInv'
<1>1. \A q \in Place : link[q] \in Nat /\ link[q] <= Len(session) /\ Len(session) \in Nat /\ Len(session') \in Nat
  BY DEF BindInv, ChatTypes
<1>2. ChatTypes'
  BY <1>1 DEF BindInv, ChatTypes
<1>3. ASSUME NEW q \in Place, link'[q] # None PROVE HeldBy(ExtOf[q], session'[link'[q]].user)
  <2>1. link'[q] = link[q] /\ link[q] \in 1 .. Len(session)
    BY <1>1, <1>3 DEF None
  <2> QED
    BY <1>3, <2>1 DEF BindInv, Owned
<1>4. \A q \in Place : \A f \in DOMAIN waiting'[q] : HeldBy(ExtOf[q], waiting'[q][f].user)
  BY DEF BindInv, Owned
<1> QED
  BY <1>2, <1>3, <1>4, ChatsKeep

LEMMA WebKeeps ==
  ASSUME BindInv, (\E u \in User : OpenOnWeb(u)) \/ (\E s \in DOMAIN session : Delete(s))
  PROVE  BindInv'
<1>0. session \in Seq(ChatRec) /\ Len(session) \in Nat
  BY DEF BindInv, ChatTypes
<1>1. ASSUME NEW u \in User, OpenOnWeb(u) PROVE BindInv'
  <2>1. session' = Append(session, [user |-> u, exists |-> TRUE])
        /\ UNCHANGED <<now, bound, active, link, workspace, waiting, codes>>
    BY <1>1 DEF OpenOnWeb
  <2>2. session' \in Seq(ChatRec) /\ Len(session') = Len(session) + 1 /\ \A m \in 1 .. Len(session) : session'[m] = session[m]
    BY <1>0, <2>1, NewChatIs
  <2> QED
    BY <1>0, <2>1, <2>2, SessionsKeep
<1>2. ASSUME NEW s \in DOMAIN session, Delete(s) PROVE BindInv'
  <2>1. PICK c \in ChatRec : c = session[s]
    BY <1>0
  <2>2. PICK n : n = [c EXCEPT !.exists = FALSE]
    OBVIOUS
  <2>3. n \in ChatRec /\ n.user = c.user
    BY <2>2 DEF ChatRec
  <2>4. session' = [session EXCEPT ![s] = n] /\ UNCHANGED <<now, bound, active, link, workspace, waiting, codes>>
    BY <1>2, <2>1, <2>2 DEF Delete
  <2>5. /\ session' \in Seq(ChatRec) /\ Len(session') = Len(session)
        /\ \A m \in 1 .. Len(session) : session'[m].user = session[m].user
    BY <1>0, <2>1, <2>3, <2>4
  <2> QED
    BY <1>0, <2>4, <2>5, SessionsKeep
<1> QED
  BY <1>1, <1>2

LEMMA FileKeeps ==
  ASSUME BindInv, NEW p \in Place, File(p)
  PROVE  BindInv'
<1>1. PICK u \in User : u = Resolved(p) /\ HeldBy(ExtOf[p], u)
  BY SessionOf DEF File
<1>2. PICK f : f = [user |-> u, born |-> now, stored |-> u \in workspace]
  OBVIOUS
<1>3. f \in FileRec /\ f.user = u
  <2>1. now \in Nat /\ (u \in workspace) \in BOOLEAN
    BY DEF BindInv, BindTypes
  <2> QED
    BY <1>2, <2>1 DEF FileRec
<1>4. PICK w \in Seq(FileRec) : w = waiting[p]
  BY DEF BindInv, ChatTypes
<1>5. waiting' = [waiting EXCEPT ![p] = Append(w, f)] /\ UNCHANGED <<now, bound, active, link, session, workspace, codes>>
  BY <1>1, <1>2, <1>4 DEF File
<1>6. /\ Append(w, f) \in Seq(FileRec) /\ DOMAIN Append(w, f) = 1 .. (Len(w) + 1) /\ Append(w, f)[Len(w) + 1] = f
      /\ \A n \in 1 .. Len(w) : Append(w, f)[n] = w[n] /\ n \in DOMAIN w
  BY <1>3, <1>4
<1>7. waiting' \in [Place -> Seq(FileRec)] /\ waiting'[p] = Append(w, f) /\ \A q \in Place : q # p => waiting'[q] = waiting[q]
  BY <1>5, <1>6 DEF BindInv, ChatTypes
<1>8. ChatTypes'
  BY <1>5, <1>7 DEF BindInv, ChatTypes
<1>9. \A n \in 1 .. (Len(w) + 1) : HeldBy(ExtOf[p], Append(w, f)[n].user)
  <2>1. Len(w) \in Nat
    OBVIOUS
  <2>2. \A n \in 1 .. Len(w) : HeldBy(ExtOf[p], w[n].user)
    BY <1>4, <1>6 DEF BindInv, Owned
  <2> QED
    BY <1>1, <1>3, <1>6, <2>1, <2>2
<1>10. \A q \in Place : \A n \in DOMAIN waiting'[q] : HeldBy(ExtOf[q], waiting'[q][n].user)
  BY <1>6, <1>7, <1>9 DEF BindInv, Owned
<1>11. \A q \in Place : link'[q] # None => HeldBy(ExtOf[q], session'[link'[q]].user)
  BY <1>5 DEF BindInv, Owned
<1> QED
  BY <1>5, <1>8, <1>10, <1>11, ChatsKeep

LEMMA BindSteps ==
  ASSUME BindInv, BNext
  PROVE  BindInv'
  BY AskCodeKeeps, GiveCodeKeeps, ConsumeKeeps, IdentitiesKeep, TextKeeps, NewChatKeeps, SwitchKeeps, WebKeeps, FileKeeps
     DEF BNext

LEMMA BindMeans == BindInv => BTypeOK /\ BindingsHold
<1> SUFFICES ASSUME BindInv PROVE BTypeOK /\ BindingsHold
  OBVIOUS
<1>1. BTypeOK
  <2>1. \A c \in DOMAIN code : code[c] \in CodeRec /\ code[c].born <= now
    BY DEF BindInv, BindTypes
  <2>2. \A c \in DOMAIN code : code[c].ext \in Ext /\ code[c].born \in 0 .. now
    BY <2>1 DEF CodeRec, BindInv, BindTypes
  <2>3. link \in [Place -> 0 .. Len(session)]
    BY DEF BindInv, ChatTypes
  <2> QED
    BY <2>2, <2>3 DEF BTypeOK, BindInv, BindTypes, ChatTypes
<1>2. CodeIsSpentOnce
  BY DEF BindInv, SpentOnce, CodeIsSpentOnce
<1>3. LastCodeOnly
  <2> SUFFICES ASSUME NEW e \in Ext \ raced
               PROVE  Cardinality({c \in DOMAIN code : code[c].ext = e /\ ~code[c].used}) <= 1
    BY DEF LastCodeOnly
  <2>1. \A c, d \in {c \in DOMAIN code : code[c].ext = e /\ ~code[c].used} : c = d
    BY DEF BindInv, LastOnly
  <2> QED
    BY <2>1, AtMostOneIs
<1>4. ChatsAreOwn
  <2>1. \A e, u : HeldBy(e, u) => u \in Holders(e)
    BY DEF HeldBy, Holders
  <2> QED
    BY <2>1 DEF BindInv, Owned, ChatsAreOwn
<1> QED
  BY <1>1, <1>2, <1>3, <1>4 DEF BindingsHold

-----------------------------------------------------------------------------
(* The agents of a tenant: the hierarchy.                                      *)

(* The search from the parent upwards ends with a set that climbs.             *)
LEMMA AncestorsClimb ==
  ASSUME NEW E, NEW p \in Agent
  PROVE  p \in Ancestors(E, p) /\ Climbs(E, Ancestors(E, p)) /\ Ancestors(E, p) \subseteq Agent
<1>1. \A x \in Agent : x \in Ancestors(E, p) <=> \A U \in SUBSET Agent : p \in U /\ Climbs(E, U) => x \in U
  BY DEF Ancestors
<1>2. Ancestors(E, p) \subseteq Agent
  BY DEF Ancestors
<1>3. ASSUME NEW x \in Ancestors(E, p), NEW y \in Agent, <<y, x>> \in E PROVE y \in Ancestors(E, p)
  <2>1. ASSUME NEW U \in SUBSET Agent, p \in U, Climbs(E, U) PROVE y \in U
    <3>1. x \in U
      BY <1>1, <1>2, <2>1
    <3> QED
      BY <1>3, <2>1, <3>1 DEF Climbs
  <2> QED
    BY <1>1, <2>1
<1> QED
  BY <1>1, <1>2, <1>3 DEF Climbs

(* Children that are checked one by one close no cycle together either: none   *)
(* of the ways back to the parent leaves its ancestors.                        *)
LEMMA ChildrenCloseNoCycle ==
  ASSUME NEW E, NEW p \in Agent, NEW ks \in SUBSET Agent, Acyclic(E),
         \A c \in ks : ~WouldCreateCycle(E, p, c)
  PROVE  Acyclic(E \cup {<<p, c>> : c \in ks})
<1>1. PICK A : A = Ancestors(E, p)
  OBVIOUS
<1>2. p \in A /\ A \subseteq Agent /\ \A x \in A : \A y \in Agent : <<y, x>> \in E => y \in A
  BY <1>1, AncestorsClimb DEF Climbs
<1>3. \A c \in ks : c \notin A
  BY <1>1 DEF WouldCreateCycle
<1>4. PICK F : F = E \cup {<<p, c>> : c \in ks}
  OBVIOUS
<1>5. \A x, y : <<x, y>> \in F => <<x, y>> \in E \/ (x = p /\ y \notin A)
  BY <1>3, <1>4
<1>6. ASSUME NEW S \in SUBSET Agent, S # {} PROVE \E x \in S : \A y \in S : <<x, y>> \notin F
  <2>1. CASE S \subseteq A
    <3>1. PICK x \in S : \A y \in S : <<x, y>> \notin E
      BY <1>6 DEF Acyclic
    <3> QED
      BY <1>5, <2>1, <3>1
  <2>2. CASE ~(S \subseteq A)
    <3>1. S \ A \in SUBSET Agent /\ S \ A # {}
      BY <2>2
    <3>2. PICK x \in S \ A : \A y \in S \ A : <<x, y>> \notin E
      BY <3>1 DEF Acyclic
    <3>3. \A y \in S : <<x, y>> \notin F
      BY <1>2, <1>5, <3>2
    <3> QED
      BY <3>2, <3>3
  <2> QED
    BY <2>1, <2>2
<1>7. Acyclic(F)
  BY <1>6 DEF Acyclic
<1> QED
  BY <1>4, <1>7

(* An agent that has no parent may be given any children but itself.           *)
LEMMA ParentlessClosesNoCycle ==
  ASSUME NEW E, NEW p \in Agent, NEW ks \in SUBSET Agent, Acyclic(E),
         \A x : <<x, p>> \notin E, p \notin ks
  PROVE  Acyclic(E \cup {<<p, c>> : c \in ks})
<1>1. PICK F : F = E \cup {<<p, c>> : c \in ks}
  OBVIOUS
<1>2. \A x, y : <<x, y>> \in F => <<x, y>> \in E \/ (x = p /\ y # p)
  BY <1>1
<1>3. ASSUME NEW S \in SUBSET Agent, S # {} PROVE \E x \in S : \A y \in S : <<x, y>> \notin F
  <2>1. CASE S \subseteq {p}
    BY <1>2, <1>3, <2>1
  <2>2. CASE ~(S \subseteq {p})
    <3>1. S \ {p} \in SUBSET Agent /\ S \ {p} # {}
      BY <2>2
    <3>2. PICK x \in S \ {p} : \A y \in S \ {p} : <<x, y>> \notin E
      BY <3>1 DEF Acyclic
    <3> QED
      BY <1>2, <3>2
  <2> QED
    BY <2>1, <2>2
<1>4. Acyclic(F)
  BY <1>3 DEF Acyclic
<1> QED
  BY <1>1, <1>4

LEMMA FewerCloseNoCycle ==
  ASSUME NEW E, NEW F, F \subseteq E, Acyclic(E)
  PROVE  Acyclic(F)
BY DEF Acyclic

-----------------------------------------------------------------------------
(* The agents of a tenant: what their edits keep.                              *)

WishNames == {"kids", "is_active", "bound", "all", "enabled"}
Wishes == [set : SUBSET WishNames, kids : SUBSET Agent, on : BOOLEAN, bound : SUBSET Server, all : SUBSET Server,
           enabled : SUBSET Tools]
VersionRec == [agent : Agent, at : 1 .. MaxEdits, active : BOOLEAN, row : Rows]
EditRec == [pc : {"idle", "read", "selected", "ready"}, op : {"none", "create", "update", "delete", "publish"},
            agent : Agent \cup {NoOne}, at : 0 .. MaxEdits, wish : Wishes, row : Rows,
            gone : SUBSET ((Agent \X Agent) \cup VersionRec)]
AgentTypes ==
    /\ agent \in [Agent -> Rows] /\ kids \subseteq Agent \X Agent /\ edits \in 0 .. MaxEdits
    /\ version \subseteq VersionRec /\ edit \in [Editor -> EditRec] /\ last \in [Agent -> 0 .. MaxEdits]
    /\ ran.grant \subseteq Tools
(* What an edit has read and whose row it is about; two differ in their time.  *)
EditsFit ==
    /\ \A e \in Editor : LET t == edit[e] IN
         /\ t.pc = "idle" => t.op = "none"
         /\ t.pc # "idle" => t.op # "none" /\ t.agent \in Agent /\ t.at \in 1 .. edits
         /\ t.pc # "idle" => (t.op = "create" <=> agent[t.agent].is = "new")
         /\ t.pc = "read" => t.gone = {}
         /\ t.pc = "ready" => t.op # "publish"
         /\ t.pc \in {"selected", "ready"} => t.op \in {"delete", "publish"} \/ SetsKids(t)
         /\ t.op = "create" => Fits(NewRow, t.wish)
         /\ t.op = "update" => Fits(t.row, t.wish)
    /\ \A e, f \in Editor : e # f /\ edit[e].pc # "idle" /\ edit[f].pc # "idle" => edit[e].at # edit[f].at
    /\ \A e, f \in Editor : edit[e].op = "create" /\ edit[f].op = "create" /\ edit[e].agent = edit[f].agent => e = f
(* The relations and the children about to be written name agents that are     *)
(* not still to be created.                                                    *)
NamesKnown ==
    /\ \A r \in kids : agent[r[1]].is # "new" /\ agent[r[2]].is # "new"
    /\ \A e \in Editor : edit[e].pc = "ready" /\ SetsKids(edit[e]) =>
         \A c \in edit[e].wish.kids : agent[c].is # "new"
(* Without overlapping updates of children there is no cycle, also not with    *)
(* those of the update that was checked.                                       *)
Tree == \/ "hierarchy" \in races
        \/ /\ \A E : E = kids => Acyclic(E)
           /\ \A e, f \in Editor : edit[e].op = "update" /\ SetsKids(edit[e]) /\ edit[f].op = "update" /\ SetsKids(edit[f]) => e = f
           /\ \A e \in Editor : edit[e].op = "update" /\ SetsKids(edit[e]) /\ edit[e].pc = "ready" =>
                \A E : E = (kids \ edit[e].gone) \cup {<<edit[e].agent, c>> : c \in edit[e].wish.kids} => Acyclic(E)
(* A deletion has selected all relations of its agent, unless an update of     *)
(* children that names it overlaps.                                            *)
Ghosts ==
    \/ "ghost" \in races
    \/ /\ \A r \in kids : Here(r[1]) /\ Here(r[2])
       /\ \A d, e \in Editor : edit[d].op = "delete" /\ SetsKids(edit[e]) => edit[d].agent \notin edit[e].wish.kids \cup {edit[e].agent}
       /\ \A d \in Editor : edit[d].op = "delete" /\ edit[d].pc \in {"selected", "ready"} =>
            \A r \in kids : edit[d].agent \in {r[1], r[2]} => r \in edit[d].gone
       /\ \A e \in Editor : SetsKids(edit[e]) /\ edit[e].pc = "ready" => \A c \in edit[e].wish.kids : Here(c)
(* The one update of an agent has read the row as it is.                       *)
RowsBound ==
    \/ "row" \in races
    \/ /\ \A a \in Agent : agent[a].all \subseteq agent[a].bound
       /\ \A e, f \in Editor : edit[e].op = "update" /\ edit[f].op = "update" /\ edit[e].agent = edit[f].agent => e = f
       /\ \A e \in Editor : edit[e].op = "update" /\ Here(edit[e].agent) => agent[edit[e].agent] = edit[e].row
(* A version is known by its time; what a publication retires is of its agent. *)
Versions ==
    /\ \A v \in version : v.at <= edits
    /\ \A v, w \in version : v.at = w.at => v = w
    /\ \A e \in Editor : edit[e].op = "publish" =>
         /\ \A v \in version : v.at # edit[e].at
         /\ \A g \in edit[e].gone : \E v \in version : v.at = g.at /\ v.agent = edit[e].agent
    /\ \A a \in Agent : last[a] # 0 => \E v \in version : v.agent = a /\ v.active
(* The one publication of an agent retires all that are active.                *)
OneVersion ==
    \/ "publish" \in races
    \/ /\ \A v \in version : v.active => v.at = last[v.agent]
       /\ \A e, f \in Editor : edit[e].op = "publish" /\ edit[f].op = "publish" /\ edit[e].agent = edit[f].agent => e = f
       /\ \A e \in Editor : edit[e].op = "publish" /\ edit[e].pc = "selected" =>
            \A v \in version : v.agent = edit[e].agent /\ v.active => \E g \in edit[e].gone : g.at = v.at
       /\ ran.at = ran.due
AgentInv == AgentTypes /\ EditsFit /\ NamesKnown /\ Tree /\ Ghosts /\ RowsBound /\ Versions /\ OneVersion

LEMMA AgentStarts == AInit => AgentInv
<1> SUFFICES ASSUME AInit PROVE AgentInv
  OBVIOUS
<1>1. NoWish \in Wishes /\ NewRow \in Rows
  BY DEF NoWish, Wishes, WishNames, NewRow, Rows
<1>2. NoEdit \in EditRec /\ NoEdit.pc = "idle" /\ NoEdit.op = "none" /\ ~SetsKids(NoEdit)
  BY <1>1, CatalogAssumption DEF NoEdit, EditRec, SetsKids
<1>3. /\ kids = {} /\ version = {} /\ edits = 0 /\ races = {} /\ ran = NoRun
      /\ edit = [e \in Editor |-> NoEdit] /\ last = [a \in Agent |-> 0]
  BY DEF AInit
<1>4. PICK here \in SUBSET Agent : agent = [a \in Agent |-> [NewRow EXCEPT !.is = IF a \in here THEN "here" ELSE "new"]]
  BY DEF AInit
<1>5. \A i \in {"here", "new"} : [NewRow EXCEPT !.is = i] \in Rows /\ [NewRow EXCEPT !.is = i].all = {}
  BY DEF NewRow, Rows
<1>6. agent \in [Agent -> Rows] /\ \A a \in Agent : agent[a].all \subseteq agent[a].bound
  BY <1>4, <1>5
<1>7. edit \in [Editor -> EditRec] /\ \A e \in Editor : edit[e] = NoEdit
  BY <1>2, <1>3
<1>8. AgentTypes
  BY <1>3, <1>6, <1>7, CatalogAssumption DEF AgentTypes, NoRun
<1>9. EditsFit /\ NamesKnown
  BY <1>2, <1>3, <1>7 DEF EditsFit, NamesKnown
<1>10. \A E : E = {} => Acyclic(E)
  BY DEF Acyclic
<1>11. Tree /\ Ghosts /\ RowsBound
  BY <1>2, <1>3, <1>6, <1>7, <1>10 DEF Tree, Ghosts, RowsBound
<1>12. ran.at = ran.due
  BY <1>3 DEF NoRun
<1>13. Versions /\ OneVersion
  BY <1>2, <1>3, <1>7, <1>12 DEF Versions, OneVersion
<1> QED
  BY <1>8, <1>9, <1>11, <1>13 DEF AgentInv

LEMMA NoEditIs == NoEdit \in EditRec /\ NoEdit.pc = "idle" /\ NoEdit.op = "none" /\ ~SetsKids(NoEdit)
BY CatalogAssumption DEF NoEdit, EditRec, SetsKids, NoWish, Wishes, WishNames, NewRow, Rows

(* Edits that end leave the others what they know of deletions.                *)
LEMMA GhostsRest ==
  ASSUME Ghosts, UNCHANGED <<agent, kids, races>>, \A f \in Editor : edit'[f] \in {edit[f], NoEdit}
  PROVE  Ghosts'
<1>1. \A f \in Editor : edit'[f].op = "delete" => edit'[f] = edit[f]
  BY NoEditIs
<1>2. \A f \in Editor : SetsKids(edit'[f]) => edit'[f] = edit[f]
  BY NoEditIs
<1>3. \A a : Here(a)' = Here(a)
  BY DEF Here
<1>4. CASE "ghost" \in races
  BY <1>4 DEF Ghosts
<1>5. CASE "ghost" \notin races
  <2>1. \A r \in kids' : Here(r[1])' /\ Here(r[2])'
    BY <1>3, <1>5 DEF Ghosts
  <2>2. \A d, e \in Editor : edit'[d].op = "delete" /\ SetsKids(edit'[e])
          => edit'[d].agent \notin edit'[e].wish.kids \cup {edit'[e].agent}
    BY <1>1, <1>2, <1>5 DEF Ghosts
  <2>3. \A d \in Editor : edit'[d].op = "delete" /\ edit'[d].pc \in {"selected", "ready"} =>
          \A r \in kids' : edit'[d].agent \in {r[1], r[2]} => r \in edit'[d].gone
    BY <1>1, <1>5 DEF Ghosts
  <2>4. \A e \in Editor : SetsKids(edit'[e]) /\ edit'[e].pc = "ready" => \A c \in edit'[e].wish.kids : Here(c)'
    BY <1>2, <1>3, <1>5 DEF Ghosts
  <2> QED
    BY <2>1, <2>2, <2>3, <2>4 DEF Ghosts
<1> QED
  BY <1>4, <1>5

LEMMA AgentRests ==
  ASSUME AgentInv, UNCHANGED avars
  PROVE  AgentInv'
<1>1. AgentTypes' /\ RowsBound' /\ Versions'
  BY DEF avars, AgentInv, AgentTypes, RowsBound, Versions, Here
<1>2. EditsFit' /\ NamesKnown'
  BY DEF avars, AgentInv, EditsFit, NamesKnown, SetsKids
<1>3. Tree' /\ OneVersion'
  BY DEF avars, AgentInv, Tree, OneVersion, SetsKids
<1>4. Ghosts'
  BY GhostsRest DEF avars, AgentInv
<1> QED
  BY <1>1, <1>2, <1>3, <1>4 DEF AgentInv

-----------------------------------------------------------------------------
(* The agents of a tenant: an edit begins.                                     *)

LEMMA WishesAre == AgentWishes \subseteq Wishes
<1>1. NoWish \in Wishes
  BY DEF NoWish, Wishes, WishNames
<1>2. \A k \in SUBSET Agent : KidsWish(k) \in Wishes
  BY <1>1 DEF KidsWish, Wishes, WishNames
<1>3. \A o \in BOOLEAN : ActiveWish(o) \in Wishes
  BY <1>1 DEF ActiveWish, Wishes, WishNames
<1>4. \A b \in SUBSET Server : BoundWish(b) \in Wishes /\ AllWish(b) \in Wishes
  BY <1>1 DEF BoundWish, AllWish, Wishes, WishNames
<1>5. \A b, l \in SUBSET Server : ServerWish(b, l) \in Wishes
  BY <1>1 DEF ServerWish, Wishes, WishNames
<1>6. \A t \in SUBSET Tools : ToolWish(t) \in Wishes
  BY <1>1 DEF ToolWish, Wishes, WishNames
<1> QED
  BY <1>2, <1>3, <1>4, <1>5, <1>6 DEF AgentWishes

LEMMA BeginKeeps ==
  ASSUME AgentInv, NEW e \in Editor, NEW op \in {"create", "update", "delete", "publish"}, NEW a \in Agent,
         NEW w \in Wishes, Begin(e, op, a, w), op = "create" <=> agent[a].is = "new",
         op = "create" => Fits(NewRow, w), op = "update" => Fits(agent[a], w),
         op = "create" => \A o \in Open : edit[o].op = "create" => edit[o].agent # a
  PROVE  AgentInv'
<1>1. PICK t : t = [pc |-> "read", op |-> op, agent |-> a, at |-> edits + 1, wish |-> w, row |-> agent[a], gone |-> {}]
  OBVIOUS
<1>2. PICK n \in Nat : n = edits /\ n < MaxEdits /\ n + 1 \in 1 .. MaxEdits
  BY CatalogAssumption DEF Begin, AgentInv, AgentTypes
<1>3. agent[a] \in Rows
  BY DEF AgentInv, AgentTypes
<1>4. /\ t \in EditRec /\ t.pc = "read" /\ t.op = op /\ t.agent = a /\ t.at = n + 1 /\ t.wish = w /\ t.row = agent[a]
      /\ t.gone = {}
  BY <1>1, <1>2, <1>3 DEF EditRec
<1>5. edit[e].pc = "idle" /\ edits' = n + 1 /\ edit' = [edit EXCEPT ![e] = t]
      /\ races' = races \cup UNION {Race(edit[o], t) : o \in Open}
  BY <1>1, <1>2 DEF Begin
<1>6. UNCHANGED <<agent, kids, version, last, ran>>
  BY DEF Begin
<1>7. edit' \in [Editor -> EditRec] /\ edit'[e] = t /\ \A f \in Editor : f # e => edit'[f] = edit[f]
  BY <1>4, <1>5 DEF AgentInv, AgentTypes
<1>8. races \subseteq races' /\ \A f \in Editor : edit[f].pc # "idle" => Race(edit[f], t) \subseteq races'
  BY <1>5 DEF Open
<1>9. AgentTypes'
  BY <1>2, <1>5, <1>6, <1>7, CatalogAssumption DEF AgentInv, AgentTypes
<1>10. \A f \in Editor : edit[f].pc # "idle" => edit[f].at \in 1 .. n /\ edit[f].op # "none"
  BY <1>2 DEF AgentInv, EditsFit
<1>11. \A f \in Editor : edit[f].op # "none" => edit[f].pc # "idle"
  BY DEF AgentInv, EditsFit
<1>12. EditsFit'
  <2>1. ASSUME NEW f \in Editor
        PROVE  LET s == edit'[f] IN
               /\ s.pc = "idle" => s.op = "none"
               /\ s.pc # "idle" => s.op # "none" /\ s.agent \in Agent /\ s.at \in 1 .. (n + 1)
               /\ s.pc # "idle" => (s.op = "create" <=> agent[s.agent].is = "new")
               /\ s.pc = "read" => s.gone = {}
               /\ s.pc = "ready" => s.op # "publish"
               /\ s.pc \in {"selected", "ready"} => s.op \in {"delete", "publish"} \/ SetsKids(s)
               /\ s.op = "create" => Fits(NewRow, s.wish)
               /\ s.op = "update" => Fits(s.row, s.wish)
    <3>1. CASE f = e
      BY <1>2, <1>4, <1>7, <3>1
    <3>2. CASE f # e
      <4>1. edit'[f] = edit[f] /\ 1 .. n \subseteq 1 .. (n + 1)
        BY <1>7, <3>2
      <4> QED
        BY <1>2, <4>1 DEF AgentInv, EditsFit
    <3> QED
      BY <3>1, <3>2
  <2>2. \A f, g \in Editor : f # g /\ edit'[f].pc # "idle" /\ edit'[g].pc # "idle" => edit'[f].at # edit'[g].at
    BY <1>2, <1>4, <1>7, <1>10 DEF AgentInv, EditsFit
  <2>3. \A f, g \in Editor : edit'[f].op = "create" /\ edit'[g].op = "create" /\ edit'[f].agent = edit'[g].agent => f = g
    BY <1>4, <1>7, <1>11 DEF AgentInv, EditsFit, Open
  <2> QED
    BY <1>5, <1>6, <2>1, <2>2, <2>3 DEF EditsFit, SetsKids, Fits
<1>13. NamesKnown'
  BY <1>4, <1>6, <1>7 DEF AgentInv, NamesKnown, SetsKids
<1>14. Tree'
  <2> SUFFICES ASSUME "hierarchy" \notin races' PROVE Tree'
    BY DEF Tree
  <2>1. \A f \in Editor : edit[f].op = "update" /\ SetsKids(edit[f]) => ~(op = "update" /\ SetsKids(t))
    BY <1>4, <1>8, <1>11 DEF Race
  <2>2. "hierarchy" \notin races
    BY <1>8
  <2> QED
    BY <1>4, <1>6, <1>7, <2>1, <2>2 DEF AgentInv, Tree, SetsKids
<1>15. Ghosts'
  <2> SUFFICES ASSUME "ghost" \notin races' PROVE Ghosts'
    BY DEF Ghosts
  <2>1. \A f \in Editor : edit[f].pc # "idle" => "ghost" \notin Race(edit[f], t)
    BY <1>8
  <2>2. \A f \in Editor : edit[f].op = "delete" /\ SetsKids(t) => edit[f].agent \notin t.wish.kids \cup {t.agent}
    BY <1>11, <2>1 DEF Race
  <2>3. \A f \in Editor : t.op = "delete" /\ SetsKids(edit[f]) => t.agent \notin edit[f].wish.kids \cup {edit[f].agent}
    <3>1. \A f \in Editor : SetsKids(edit[f]) => edit[f].pc # "idle"
      BY <1>11 DEF SetsKids
    <3> QED
      BY <2>1, <3>1 DEF Race
  <2>4. t.op = "delete" => ~SetsKids(t)
    BY DEF SetsKids
  <2> QED
    BY <1>4, <1>6, <1>7, <1>8, <2>2, <2>3, <2>4 DEF AgentInv, Ghosts, SetsKids, Here
<1>16. RowsBound'
  <2> SUFFICES ASSUME "row" \notin races' PROVE RowsBound'
    BY DEF RowsBound
  <2>1. \A f \in Editor : edit[f].op = "update" /\ op = "update" => edit[f].agent # a
    BY <1>4, <1>8, <1>11 DEF Race
  <2>2. "row" \notin races
    BY <1>8
  <2> QED
    BY <1>4, <1>6, <1>7, <2>1, <2>2 DEF AgentInv, RowsBound, Here
<1>17. Versions'
  BY <1>2, <1>4, <1>5, <1>6, <1>7 DEF AgentInv, AgentTypes, VersionRec, Versions
<1>18. OneVersion'
  <2> SUFFICES ASSUME "publish" \notin races' PROVE OneVersion'
    BY DEF OneVersion
  <2>1. \A f \in Editor : edit[f].op = "publish" /\ op = "publish" => edit[f].agent # a
    BY <1>4, <1>8, <1>11 DEF Race
  <2>2. "publish" \notin races
    BY <1>8
  <2> QED
    BY <1>4, <1>6, <1>7, <2>1, <2>2 DEF AgentInv, OneVersion
<1> QED
  BY <1>9, <1>12, <1>13, <1>14, <1>15, <1>16, <1>17, <1>18 DEF AgentInv

-----------------------------------------------------------------------------
(* The agents of a tenant: an edit goes on.                                    *)

LEMMA SelectKeeps ==
  ASSUME AgentInv, NEW e \in Editor, Select(e)
  PROVE  AgentInv'
<1>1. PICK t \in EditRec : t = edit[e]
  BY DEF AgentInv, AgentTypes
<1>2. t.pc = "read" /\ (t.op \in {"delete", "publish"} \/ SetsKids(t))
  BY <1>1 DEF Select
<1>3. PICK G : G = Selected(t)
  OBVIOUS
<1>4. G \subseteq (Agent \X Agent) \cup VersionRec
  BY <1>3 DEF Selected, AgentInv, AgentTypes
<1>5. /\ t.op = "delete" => \A r \in kids : t.agent \in {r[1], r[2]} => r \in G
      /\ t.op = "publish" => \A v : v \in G <=> v \in version /\ v.agent = t.agent /\ v.active
  BY <1>3 DEF Selected
<1>6. PICK s : s = [t EXCEPT !.pc = "selected", !.gone = G]
  OBVIOUS
<1>7. /\ s \in EditRec /\ s.pc = "selected" /\ s.gone = G /\ s.op = t.op /\ s.agent = t.agent /\ s.at = t.at
      /\ s.wish = t.wish /\ s.row = t.row
  BY <1>4, <1>6 DEF EditRec
<1>8. edit' = [edit EXCEPT ![e] = s] /\ UNCHANGED <<agent, kids, version, edits, races, last, ran>>
  BY <1>1, <1>3, <1>6 DEF Select
<1>9. edit' \in [Editor -> EditRec] /\ edit'[e] = s /\ \A f \in Editor : f # e => edit'[f] = edit[f]
  BY <1>7, <1>8 DEF AgentInv, AgentTypes
<1>10. AgentTypes'
  BY <1>8, <1>9 DEF AgentInv, AgentTypes
<1>11. EditsFit'
  BY <1>1, <1>2, <1>7, <1>8, <1>9 DEF AgentInv, EditsFit, SetsKids, Fits
<1>12. NamesKnown' /\ RowsBound'
  BY <1>1, <1>7, <1>8, <1>9 DEF AgentInv, NamesKnown, RowsBound, SetsKids, Here
<1>13. Tree'
  BY <1>1, <1>7, <1>8, <1>9 DEF AgentInv, Tree, SetsKids
<1>14. Ghosts'
  BY <1>1, <1>5, <1>7, <1>8, <1>9 DEF AgentInv, Ghosts, SetsKids, Here
<1>15. Versions'
  BY <1>1, <1>5, <1>7, <1>8, <1>9 DEF AgentInv, Versions
<1>16. OneVersion'
  BY <1>1, <1>5, <1>7, <1>8, <1>9 DEF AgentInv, OneVersion
<1> QED
  BY <1>10, <1>11, <1>12, <1>13, <1>14, <1>15, <1>16 DEF AgentInv

(* An edit that is withdrawn leaves what the others keep.                      *)
LEMMA WithdrawKeeps ==
  ASSUME AgentInv, NEW e \in Editor, Withdraw(e)
  PROVE  AgentInv'
<1>1. NoEdit \in EditRec /\ NoEdit.pc = "idle" /\ NoEdit.op = "none" /\ ~SetsKids(NoEdit)
  BY CatalogAssumption DEF NoEdit, EditRec, SetsKids, NoWish, Wishes, NewRow, Rows
<1>2. edit' = [edit EXCEPT ![e] = NoEdit] /\ UNCHANGED <<agent, kids, version, edits, races, last, ran>>
  BY DEF Withdraw
<1>3. edit' \in [Editor -> EditRec] /\ edit'[e] = NoEdit /\ \A f \in Editor : f # e => edit'[f] = edit[f]
  BY <1>1, <1>2 DEF AgentInv, AgentTypes
<1>4. AgentTypes' /\ NamesKnown' /\ RowsBound'
  BY <1>1, <1>2, <1>3 DEF AgentInv, AgentTypes, NamesKnown, RowsBound, SetsKids, Here
<1>5. EditsFit'
  BY <1>1, <1>2, <1>3 DEF AgentInv, EditsFit, SetsKids, Fits
<1>6. Tree' /\ Ghosts'
  <2>1. Tree'
    BY <1>1, <1>2, <1>3 DEF AgentInv, Tree, SetsKids
  <2>2. Ghosts'
    BY <1>2, <1>3, GhostsRest DEF AgentInv
  <2> QED
    BY <2>1, <2>2
<1>7. Versions' /\ OneVersion'
  BY <1>1, <1>2, <1>3 DEF AgentInv, Versions, OneVersion
<1> QED
  BY <1>4, <1>5, <1>6, <1>7 DEF AgentInv

LEMMA ReadyKeeps ==
  ASSUME AgentInv, NEW e \in Editor, Ready(e)
  PROVE  AgentInv'
<1>1. PICK t \in EditRec : t = edit[e]
  BY DEF AgentInv, AgentTypes
<1>2. t.pc = "selected" /\ t.op # "publish"
  BY <1>1 DEF Ready
<1>3. CASE SetsKids(t) /\ ~ChildrenAllowed(kids \ t.gone, t.agent, t.wish.kids)
  BY <1>1, <1>3, WithdrawKeeps DEF Ready
<1>4. CASE ~(SetsKids(t) /\ ~ChildrenAllowed(kids \ t.gone, t.agent, t.wish.kids))
  <2>1. PICK s : s = [t EXCEPT !.pc = "ready"]
    OBVIOUS
  <2>2. /\ s \in EditRec /\ s.pc = "ready" /\ s.gone = t.gone /\ s.op = t.op /\ s.agent = t.agent /\ s.at = t.at
        /\ s.wish = t.wish /\ s.row = t.row
    BY <2>1 DEF EditRec
  <2>3. edit' = [edit EXCEPT ![e] = s] /\ UNCHANGED <<agent, kids, version, edits, races, last, ran>>
    BY <1>1, <1>4, <2>1 DEF Ready
  <2>4. edit' \in [Editor -> EditRec] /\ edit'[e] = s /\ \A f \in Editor : f # e => edit'[f] = edit[f]
    BY <2>2, <2>3 DEF AgentInv, AgentTypes
  <2>5. AgentTypes'
    BY <2>3, <2>4 DEF AgentInv, AgentTypes
  <2>6. EditsFit'
    BY <1>1, <1>2, <2>2, <2>3, <2>4 DEF AgentInv, EditsFit, SetsKids, Fits
  <2>7. SetsKids(t) => \A c \in t.wish.kids : Here(c) /\ agent[c].is # "new"
    BY <1>4 DEF ChildrenAllowed, Here
  <2>8. NamesKnown' /\ RowsBound'
    BY <1>1, <2>2, <2>3, <2>4, <2>7 DEF AgentInv, NamesKnown, RowsBound, SetsKids, Here
  <2>9. Tree'
    <3> SUFFICES ASSUME "hierarchy" \notin races PROVE Tree'
      BY <2>3 DEF Tree
    <3>1. ASSUME NEW E, SetsKids(t), t.op = "update", E = (kids \ t.gone) \cup {<<t.agent, c>> : c \in t.wish.kids}
          PROVE  Acyclic(E)
      <4>1. PICK K : K = kids
        OBVIOUS
      <4>2. PICK D : D = K \ t.gone
        OBVIOUS
      <4>3. Acyclic(K)
        BY <4>1 DEF AgentInv, Tree
      <4>4. Acyclic(D)
        BY <4>2, <4>3, FewerCloseNoCycle
      <4>5. \A c \in t.wish.kids : ~WouldCreateCycle(D, t.agent, c)
        BY <1>4, <3>1, <4>1, <4>2 DEF ChildrenAllowed
      <4>6. t.agent \in Agent /\ t.wish.kids \in SUBSET Agent
        BY <1>1, <1>2 DEF AgentInv, EditsFit, EditRec, Wishes
      <4>7. Acyclic(D \cup {<<t.agent, c>> : c \in t.wish.kids})
        BY <4>4, <4>5, <4>6, ChildrenCloseNoCycle
      <4> QED
        BY <3>1, <4>1, <4>2, <4>7
    <3> QED
      BY <1>1, <2>2, <2>3, <2>4, <3>1 DEF AgentInv, Tree, SetsKids
  <2>10. Ghosts'
    <3>1. \A f \in Editor : edit'[f].op = edit[f].op /\ edit'[f].agent = edit[f].agent
                            /\ edit'[f].wish = edit[f].wish /\ edit'[f].gone = edit[f].gone
      BY <1>1, <2>2, <2>4
    <3>2. \A f \in Editor : SetsKids(edit'[f]) <=> SetsKids(edit[f])
      BY <3>1 DEF SetsKids
    <3>3. \A a : Here(a)' = Here(a)
      BY <2>3 DEF Here
    <3>4. CASE "ghost" \in races
      BY <2>3, <3>4 DEF Ghosts
    <3>5. CASE "ghost" \notin races
      <4>1. \A q \in kids' : Here(q[1])' /\ Here(q[2])'
        BY <2>3, <3>3, <3>5 DEF AgentInv, Ghosts
      <4>2. \A d, f \in Editor : edit'[d].op = "delete" /\ SetsKids(edit'[f])
              => edit'[d].agent \notin edit'[f].wish.kids \cup {edit'[f].agent}
        BY <3>1, <3>2, <3>5 DEF AgentInv, Ghosts
      <4>3. \A d \in Editor : edit'[d].pc \in {"selected", "ready"} => edit[d].pc \in {"selected", "ready"}
        BY <1>1, <1>2, <2>4
      <4>4. \A d \in Editor : edit'[d].op = "delete" /\ edit'[d].pc \in {"selected", "ready"} =>
              \A q \in kids' : edit'[d].agent \in {q[1], q[2]} => q \in edit'[d].gone
        BY <2>3, <3>1, <3>5, <4>3 DEF AgentInv, Ghosts
      <4>5. \A f \in Editor : f # e /\ SetsKids(edit'[f]) /\ edit'[f].pc = "ready"
              => \A c \in edit'[f].wish.kids : Here(c)'
        BY <2>4, <3>1, <3>2, <3>3, <3>5 DEF AgentInv, Ghosts
      <4>6. SetsKids(edit'[e]) => \A c \in edit'[e].wish.kids : Here(c)'
        BY <1>1, <2>7, <3>1, <3>2, <3>3
      <4> QED
        BY <4>1, <4>2, <4>4, <4>5, <4>6 DEF Ghosts
    <3> QED
      BY <3>4, <3>5
  <2>11. Versions' /\ OneVersion'
    BY <1>1, <1>2, <2>2, <2>3, <2>4 DEF AgentInv, Versions, OneVersion
  <2> QED
    BY <2>5, <2>6, <2>8, <2>9, <2>10, <2>11 DEF AgentInv
<1> QED
  BY <1>3, <1>4

-----------------------------------------------------------------------------
(* The agents of a tenant: an edit is written.                                 *)

(* The row that a save makes: all tools of a server are wanted only of one     *)
(* that stays bound.                                                           *)
LEMMA RevisionIs ==
  ASSUME NEW was \in Rows, NEW w \in Wishes, was.all \subseteq was.bound, Fits(was, w)
  PROVE  Revised(was, w).all \subseteq Revised(was, w).bound
<1>1. /\ Revised(was, w).bound = IF "bound" \in w.set THEN w.bound ELSE was.bound
      /\ Revised(was, w).all = IF "all" \in w.set THEN w.all
                               ELSE IF "bound" \in w.set THEN was.all \cap w.bound ELSE was.all
  BY DEF Revised, Rows
<1> QED
  BY <1>1 DEF Fits

LEMMA RevisedTyped ==
  ASSUME NEW was \in Rows, NEW w \in Wishes
  PROVE  Revised(was, w) \in Rows /\ Revised(was, w).is = was.is
<1>1. PICK on, enabled, servers, all :
        /\ on = (IF "is_active" \in w.set THEN w.on ELSE was.on)
        /\ enabled = (IF "enabled" \in w.set THEN w.enabled ELSE was.enabled)
        /\ servers = (IF "bound" \in w.set THEN w.bound ELSE was.bound)
        /\ all = (IF "all" \in w.set THEN w.all ELSE IF "bound" \in w.set THEN was.all \cap w.bound ELSE was.all)
  OBVIOUS
<1>2. on \in BOOLEAN /\ enabled \in SUBSET Tools /\ servers \in SUBSET Server /\ all \in SUBSET Server
  BY <1>1 DEF Wishes, Rows
<1>3. Revised(was, w) = [was EXCEPT !.on = on, !.enabled = enabled, !.bound = servers, !.all = all]
  BY <1>1 DEF Revised, Rows
<1> QED
  BY <1>2, <1>3 DEF Rows

LEMMA WrittenIs ==
  ASSUME NEW found \in Rows, NEW read \in Rows, NEW new \in Rows
  PROVE  /\ Written(found, read, new) \in Rows /\ Written(found, read, new).is = found.is
         /\ found = read => /\ Written(found, read, new).all = new.all
                            /\ Written(found, read, new).bound = new.bound
BY DEF Written, Rows

(* The row of the agent as the save leaves it.                                 *)
SavedRow(t) == IF t.op = "create" THEN [Revised(NewRow, t.wish) EXCEPT !.is = "here"]
               ELSE Written(agent[t.agent], t.row, Revised(t.row, t.wish))

LEMMA SavedRowIs ==
  ASSUME AgentInv, NEW e \in Editor, NEW t \in EditRec, t = edit[e], t.op \in {"create", "update"},
         t.op = "update" => Here(t.agent)
  PROVE  /\ SavedRow(t) \in Rows /\ SavedRow(t).is = "here"
         /\ "row" \notin races => SavedRow(t).all \subseteq SavedRow(t).bound
<1>1. t.wish \in Wishes /\ t.row \in Rows /\ NewRow \in Rows /\ NewRow.all \subseteq NewRow.bound
  BY DEF EditRec, NewRow, Rows
<1>2. t.agent \in Agent /\ agent[t.agent] \in Rows
  BY DEF AgentInv, AgentTypes, EditsFit
<1>3. CASE t.op = "create"
  <2>1. PICK r : r = Revised(NewRow, t.wish)
    OBVIOUS
  <2>2. Fits(NewRow, t.wish)
    BY <1>3 DEF AgentInv, EditsFit
  <2>3. r \in Rows /\ r.all \subseteq r.bound
    BY <1>1, <2>1, <2>2, RevisionIs, RevisedTyped
  <2>4. SavedRow(t) = [r EXCEPT !.is = "here"]
    BY <1>3, <2>1 DEF SavedRow
  <2> QED
    BY <2>3, <2>4 DEF Rows
<1>4. CASE t.op = "update"
  <2>1. PICK found \in Rows : found = agent[t.agent]
    BY <1>2
  <2>2. PICK r : r = Revised(t.row, t.wish)
    OBVIOUS
  <2>3. r \in Rows
    BY <1>1, <2>2, RevisedTyped
  <2>4. SavedRow(t) = Written(found, t.row, r)
    BY <1>4, <2>1, <2>2 DEF SavedRow
  <2>5. PICK new : new = Written(found, t.row, r)
    OBVIOUS
  <2>6. new \in Rows /\ new.is = found.is /\ (found = t.row => new.all = r.all /\ new.bound = r.bound)
    BY <1>1, <2>3, <2>5, WrittenIs
  <2>7. found.is = "here"
    BY <1>4, <2>1 DEF Here
  <2>8. ASSUME "row" \notin races PROVE new.all \subseteq new.bound
    <3>1. found = t.row
      BY <1>4, <2>1, <2>8 DEF AgentInv, RowsBound
    <3>2. t.row.all \subseteq t.row.bound
      BY <1>2, <2>1, <2>8, <3>1 DEF AgentInv, RowsBound
    <3>3. Fits(t.row, t.wish)
      BY <1>4 DEF AgentInv, EditsFit
    <3>4. r.all \subseteq r.bound
      BY <1>1, <2>2, <3>2, <3>3, RevisionIs
    <3> QED
      BY <2>6, <3>1, <3>4
  <2> QED
    BY <2>4, <2>5, <2>6, <2>7, <2>8
<1> QED
  BY <1>3, <1>4

LEMMA SaveKeeps ==
  ASSUME AgentInv, NEW e \in Editor, SaveAgent(e)
  PROVE  AgentInv'
<1>1. PICK t \in EditRec : t = edit[e]
  BY DEF AgentInv, AgentTypes
<1>2. t.op \in {"create", "update"} /\ t.pc = (IF SetsKids(t) THEN "ready" ELSE "read")
  BY <1>1 DEF SaveAgent
<1>3. CASE (t.op = "update" /\ ~Here(t.agent)) \/ Related(t) \cap (kids \ t.gone) # {}
  BY <1>1, <1>3, WithdrawKeeps DEF SaveAgent
<1>4. CASE ~((t.op = "update" /\ ~Here(t.agent)) \/ Related(t) \cap (kids \ t.gone) # {})
  <2>1. t.pc # "idle" /\ t.agent \in Agent /\ (t.op = "create" <=> agent[t.agent].is = "new") /\ (t.op = "update" => Here(t.agent))
    BY <1>1, <1>2, <1>4 DEF AgentInv, EditsFit
  <2>2. PICK r : r = SavedRow(t)
    OBVIOUS
  <2>3. r \in Rows /\ r.is = "here" /\ ("row" \notin races => r.all \subseteq r.bound)
    BY <1>1, <1>2, <2>1, <2>2, SavedRowIs
  <2>4. PICK K : K = Related(t)
    OBVIOUS
  <2>5. /\ K = {} \/ (SetsKids(t) /\ t.pc = "ready" /\ K = {<<t.agent, c>> : c \in t.wish.kids})
        /\ ~SetsKids(t) => t.gone = {} /\ K = {}
    BY <1>1, <1>2, <2>4 DEF Related, AgentInv, EditsFit
  <2>6. t.wish.kids \in SUBSET Agent
    BY DEF EditRec, Wishes
  <2>7. agent' = [agent EXCEPT ![t.agent] = r] /\ kids' = (kids \ t.gone) \cup K
        /\ edit' = [edit EXCEPT ![e] = NoEdit] /\ UNCHANGED <<version, edits, races, last, ran>>
    BY <1>1, <1>2, <1>4, <2>2, <2>4 DEF SaveAgent, SavedRow
  <2>8. agent' \in [Agent -> Rows] /\ agent'[t.agent] = r /\ \A a \in Agent : a # t.agent => agent'[a] = agent[a]
    BY <2>1, <2>3, <2>7 DEF AgentInv, AgentTypes
  <2>9. edit' \in [Editor -> EditRec] /\ edit'[e] = NoEdit /\ \A f \in Editor : f # e => edit'[f] = edit[f]
    BY <2>7, NoEditIs DEF AgentInv, AgentTypes
  <2>10. \A a \in Agent : agent'[a].is = "new" => agent[a].is = "new" /\ a # t.agent
    BY <2>3, <2>8
  <2>11. \A a \in Agent : agent[a].is = "here" => agent'[a].is = "here"
    BY <2>3, <2>8
  <2>12. kids' \subseteq Agent \X Agent /\ \A x : x \in kids' => x \in kids \/ (x \in K /\ x[1] = t.agent /\ x[2] \in t.wish.kids)
    BY <2>1, <2>5, <2>6, <2>7 DEF AgentInv, AgentTypes
  <2>13. AgentTypes'
    BY <2>7, <2>8, <2>9, <2>12 DEF AgentInv, AgentTypes
  <2>14. ASSUME NEW f \in Editor, f # e, edit[f].pc # "idle"
         PROVE  edit[f].agent \in Agent /\ (edit[f].op = "create" <=> agent'[edit[f].agent].is = "new")
    <3>1. edit[f].agent \in Agent /\ (edit[f].op = "create" <=> agent[edit[f].agent].is = "new")
      BY <2>14 DEF AgentInv, EditsFit
    <3>2. edit[f].op = "create" => edit[f].agent # t.agent
      BY <1>1, <2>1, <2>14, <3>1 DEF AgentInv, EditsFit
    <3> QED
      BY <2>8, <2>10, <3>1, <3>2
  <2>15. EditsFit'
    BY <2>7, <2>9, <2>14, NoEditIs DEF AgentInv, EditsFit, SetsKids, Fits
  <2>16. SetsKids(t) => \A c \in t.wish.kids : agent[c].is # "new"
    BY <1>1, <1>2 DEF AgentInv, NamesKnown
  <2>17. NamesKnown'
    <3>1. \A x \in kids' : agent'[x[1]].is # "new" /\ agent'[x[2]].is # "new"
      <4> SUFFICES ASSUME NEW x \in kids' PROVE agent'[x[1]].is # "new" /\ agent'[x[2]].is # "new"
        OBVIOUS
      <4>1. x[1] \in Agent /\ x[2] \in Agent
        BY <2>12
      <4>2. CASE x \in kids
        BY <2>10, <4>1, <4>2 DEF AgentInv, NamesKnown
      <4>3. CASE x \in K /\ x[1] = t.agent /\ x[2] \in t.wish.kids
        BY <2>5, <2>10, <2>16, <4>1, <4>3
      <4> QED
        BY <2>12, <4>2, <4>3
    <3>2. ASSUME NEW f \in Editor, f # e, edit[f].pc = "ready", SetsKids(edit[f]), NEW c \in edit[f].wish.kids
          PROVE  agent'[c].is # "new"
      <4>1. c \in Agent /\ agent[c].is # "new"
        BY <3>2 DEF AgentInv, AgentTypes, EditRec, Wishes, NamesKnown
      <4> QED
        BY <2>10, <4>1
    <3> QED
      BY <2>9, <3>1, <3>2, NoEditIs DEF NamesKnown, SetsKids
  <2>18. Tree'
    <3> SUFFICES ASSUME "hierarchy" \notin races PROVE Tree'
      BY <2>7 DEF Tree
    <3>0. t.op = "create" => \A x : <<x, t.agent>> \notin kids
      BY <2>1 DEF AgentInv, NamesKnown, AgentTypes
    <3>1. t.op = "create" => t.agent \notin t.wish.kids \/ K = {}
      BY <2>1, <2>5, <2>16
    <3>2. ASSUME NEW E, E = kids' PROVE Acyclic(E)
      <4>1. PICK B : B = kids
        OBVIOUS
      <4>2. PICK D : D = B \ t.gone
        OBVIOUS
      <4>3. Acyclic(B) /\ Acyclic(D)
        BY <4>1, <4>2, FewerCloseNoCycle DEF AgentInv, Tree
      <4>4. CASE K = {}
        BY <2>7, <3>2, <4>1, <4>2, <4>3, <4>4
      <4>5. CASE K # {} /\ t.op = "update"
        BY <1>1, <2>5, <2>7, <3>2, <4>5 DEF AgentInv, Tree
      <4>6. CASE K # {} /\ t.op = "create"
        <5>1. \A x : <<x, t.agent>> \notin D
          BY <3>0, <4>1, <4>2, <4>6
        <5>2. Acyclic(D \cup {<<t.agent, c>> : c \in t.wish.kids})
          BY <2>1, <2>6, <3>1, <4>3, <4>6, <5>1, ParentlessClosesNoCycle
        <5> QED
          BY <2>5, <2>7, <3>2, <4>1, <4>2, <4>6, <5>2
      <4> QED
        BY <1>2, <4>4, <4>5, <4>6
    <3>3. ASSUME NEW f \in Editor, f # e, edit[f].op = "update", SetsKids(edit[f]), edit[f].pc = "ready",
                 NEW E, E = (kids' \ edit[f].gone) \cup {<<edit[f].agent, c>> : c \in edit[f].wish.kids}
          PROVE  Acyclic(E)
      <4>1. PICK s \in EditRec : s = edit[f]
        BY DEF AgentInv, AgentTypes
      <4>2. PICK D : D = (kids \ s.gone) \cup {<<s.agent, c>> : c \in s.wish.kids}
        OBVIOUS
      <4>3. Acyclic(D)
        BY <3>3, <4>1, <4>2 DEF AgentInv, Tree
      <4>4. CASE K = {}
        <5>1. E \subseteq D
          BY <2>7, <3>3, <4>1, <4>2, <4>4
        <5> QED
          BY <4>3, <5>1, FewerCloseNoCycle
      <4>5. CASE K # {} /\ t.op = "update"
        BY <1>1, <2>5, <3>3, <4>5 DEF AgentInv, Tree
      <4>6. CASE K # {} /\ t.op = "create"
        <5>1. \A c \in s.wish.kids : c # t.agent
          BY <2>1, <3>3, <4>1, <4>6 DEF AgentInv, NamesKnown
        <5>2. \A x : <<x, t.agent>> \notin D
          BY <3>0, <4>2, <4>6, <5>1
        <5>3. PICK H : H = D \cup {<<t.agent, c>> : c \in t.wish.kids}
          OBVIOUS
        <5>4. Acyclic(H)
          BY <2>1, <2>6, <3>1, <4>3, <4>6, <5>2, <5>3, ParentlessClosesNoCycle
        <5>5. E \subseteq H
          BY <2>5, <2>7, <3>3, <4>1, <4>2, <4>6, <5>3
        <5> QED
          BY <5>4, <5>5, FewerCloseNoCycle
      <4> QED
        BY <1>2, <4>4, <4>5, <4>6
    <3> QED
      BY <2>9, <3>2, <3>3, NoEditIs DEF AgentInv, Tree, SetsKids
  <2>19. Ghosts'
    <3> SUFFICES ASSUME "ghost" \notin races PROVE Ghosts'
      BY <2>7 DEF Ghosts
    <3>1. SetsKids(t) => \A c \in t.wish.kids : Here(c)
      BY <1>1, <1>2 DEF AgentInv, Ghosts
    <3>2. \A x \in kids' : agent'[x[1]].is = "here" /\ agent'[x[2]].is = "here"
      <4> SUFFICES ASSUME NEW x \in kids' PROVE agent'[x[1]].is = "here" /\ agent'[x[2]].is = "here"
        OBVIOUS
      <4>1. x[1] \in Agent /\ x[2] \in Agent
        BY <2>12
      <4>2. CASE x \in kids
        BY <2>11, <4>1, <4>2 DEF AgentInv, Ghosts, Here
      <4>3. CASE x \in K /\ x[1] = t.agent /\ x[2] \in t.wish.kids
        BY <2>3, <2>5, <2>8, <2>11, <3>1, <4>1, <4>3 DEF Here
      <4> QED
        BY <2>12, <4>2, <4>3
    <3>3. ASSUME NEW d \in Editor, d # e, edit[d].op = "delete", edit[d].pc \in {"selected", "ready"}, NEW x \in kids',
                 edit[d].agent \in {x[1], x[2]}
          PROVE  x \in edit[d].gone
      <4>1. x \in kids
        BY <1>1, <2>5, <2>12, <3>3 DEF AgentInv, Ghosts
      <4> QED
        BY <3>3, <4>1 DEF AgentInv, Ghosts
    <3>4. ASSUME NEW f \in Editor, f # e, edit[f].pc = "ready", SetsKids(edit[f]), NEW c \in edit[f].wish.kids
          PROVE  agent'[c].is = "here"
      <4>1. c \in Agent /\ agent[c].is = "here"
        BY <3>4 DEF AgentInv, AgentTypes, EditRec, Wishes, Ghosts, Here
      <4> QED
        BY <2>11, <4>1
    <3> QED
      BY <2>9, <3>2, <3>3, <3>4, NoEditIs DEF AgentInv, Ghosts, SetsKids, Here
  <2>20. RowsBound'
    <3> SUFFICES ASSUME "row" \notin races PROVE RowsBound'
      BY <2>7 DEF RowsBound
    <3>1. \A a \in Agent : agent'[a].all \subseteq agent'[a].bound
      BY <2>3, <2>8 DEF AgentInv, RowsBound
    <3>2. ASSUME NEW f \in Editor, f # e, edit[f].op = "update", agent'[edit[f].agent].is = "here"
          PROVE  agent'[edit[f].agent] = edit[f].row
      <4>1. edit[f].pc # "idle" /\ edit[f].agent \in Agent /\ agent[edit[f].agent].is # "new"
        BY <3>2 DEF AgentInv, EditsFit
      <4>2. edit[f].agent # t.agent
        BY <1>1, <1>2, <2>1, <3>2, <4>1 DEF AgentInv, RowsBound
      <4> QED
        BY <2>8, <3>2, <4>1, <4>2 DEF AgentInv, RowsBound, Here
    <3> QED
      BY <2>9, <3>1, <3>2, NoEditIs DEF AgentInv, RowsBound, Here
  <2>21. Versions' /\ OneVersion'
    BY <2>7, <2>9, NoEditIs DEF AgentInv, Versions, OneVersion
  <2> QED
    BY <2>13, <2>15, <2>17, <2>18, <2>19, <2>20, <2>21 DEF AgentInv
<1> QED
  BY <1>3, <1>4

LEMMA RemoveKeeps ==
  ASSUME AgentInv, NEW e \in Editor, RemoveAgent(e)
  PROVE  AgentInv'
<1>1. PICK t \in EditRec : t = edit[e]
  BY DEF AgentInv, AgentTypes
<1>2. t.op = "delete" /\ t.pc = "ready"
  BY <1>1 DEF RemoveAgent
<1>3. t.agent \in Agent /\ agent[t.agent].is # "new"
  BY <1>1, <1>2 DEF AgentInv, EditsFit
<1>4. PICK r : r = [NewRow EXCEPT !.is = "deleted"]
  OBVIOUS
<1>5. r \in Rows /\ r.is = "deleted" /\ r.all = {}
  BY <1>4 DEF NewRow, Rows
<1>6. agent' = [agent EXCEPT ![t.agent] = r] /\ kids' = kids \ t.gone /\ edit' = [edit EXCEPT ![e] = NoEdit]
      /\ UNCHANGED <<version, edits, races, last, ran>>
  BY <1>1, <1>4 DEF RemoveAgent
<1>7. agent' \in [Agent -> Rows] /\ agent'[t.agent] = r /\ \A a \in Agent : a # t.agent => agent'[a] = agent[a]
  BY <1>3, <1>5, <1>6 DEF AgentInv, AgentTypes
<1>8. edit' \in [Editor -> EditRec] /\ edit'[e] = NoEdit /\ \A f \in Editor : f # e => edit'[f] = edit[f]
  BY <1>6, NoEditIs DEF AgentInv, AgentTypes
<1>9. \A a \in Agent : agent'[a].is = "new" <=> agent[a].is = "new"
  BY <1>3, <1>5, <1>7
<1>10. kids' \subseteq kids /\ kids \subseteq Agent \X Agent
  BY <1>6 DEF AgentInv, AgentTypes
<1>11. AgentTypes'
  BY <1>6, <1>7, <1>8, <1>10 DEF AgentInv, AgentTypes
<1>12. EditsFit'
  BY <1>6, <1>8, <1>9, NoEditIs DEF AgentInv, EditsFit, SetsKids, Fits
<1>13. NamesKnown'
  <2>1. \A x \in kids' : agent'[x[1]].is # "new" /\ agent'[x[2]].is # "new"
    BY <1>9, <1>10 DEF AgentInv, NamesKnown
  <2>2. ASSUME NEW f \in Editor, f # e, edit[f].pc = "ready", SetsKids(edit[f]), NEW c \in edit[f].wish.kids
        PROVE  agent'[c].is # "new"
    <3>1. c \in Agent /\ agent[c].is # "new"
      BY <2>2 DEF AgentInv, AgentTypes, EditRec, Wishes, NamesKnown
    <3> QED
      BY <1>9, <3>1
  <2> QED
    BY <1>8, <2>1, <2>2, NoEditIs DEF NamesKnown, SetsKids
<1>14. Tree'
  <2> SUFFICES ASSUME "hierarchy" \notin races PROVE Tree'
    BY <1>6 DEF Tree
  <2>1. ASSUME NEW E, E = kids' PROVE Acyclic(E)
    <3>1. PICK B : B = kids
      OBVIOUS
    <3>2. Acyclic(B) /\ E \subseteq B
      BY <1>10, <2>1, <3>1 DEF AgentInv, Tree
    <3> QED
      BY <3>2, FewerCloseNoCycle
  <2>2. ASSUME NEW f \in Editor, f # e, edit[f].op = "update", SetsKids(edit[f]), edit[f].pc = "ready",
               NEW E, E = (kids' \ edit[f].gone) \cup {<<edit[f].agent, c>> : c \in edit[f].wish.kids}
        PROVE  Acyclic(E)
    <3>1. PICK D : D = (kids \ edit[f].gone) \cup {<<edit[f].agent, c>> : c \in edit[f].wish.kids}
      OBVIOUS
    <3>2. Acyclic(D)
      BY <2>2, <3>1 DEF AgentInv, Tree
    <3>3. E \subseteq D
      BY <1>10, <2>2, <3>1
    <3> QED
      BY <3>2, <3>3, FewerCloseNoCycle
  <2> QED
    BY <1>8, <2>1, <2>2, NoEditIs DEF AgentInv, Tree, SetsKids
<1>15. Ghosts'
  <2> SUFFICES ASSUME "ghost" \notin races PROVE Ghosts'
    BY <1>6 DEF Ghosts
  <2>1. \A x \in kids' : agent'[x[1]].is = "here" /\ agent'[x[2]].is = "here"
    <3> SUFFICES ASSUME NEW x \in kids' PROVE agent'[x[1]].is = "here" /\ agent'[x[2]].is = "here"
      OBVIOUS
    <3>1. x \in kids /\ x \notin t.gone /\ x[1] \in Agent /\ x[2] \in Agent
      BY <1>6, <1>10
    <3>2. t.agent \notin {x[1], x[2]}
      BY <1>1, <1>2, <3>1 DEF AgentInv, Ghosts
    <3> QED
      BY <1>7, <3>1, <3>2 DEF AgentInv, Ghosts, Here
  <2>2. ASSUME NEW f \in Editor, f # e, edit[f].pc = "ready", SetsKids(edit[f]), NEW c \in edit[f].wish.kids
        PROVE  agent'[c].is = "here"
    <3>1. c \in Agent /\ agent[c].is = "here"
      BY <2>2 DEF AgentInv, AgentTypes, EditRec, Wishes, Ghosts, Here
    <3>2. c # t.agent
      BY <1>1, <1>2, <2>2 DEF AgentInv, Ghosts
    <3> QED
      BY <1>7, <3>1, <3>2
  <2> QED
    BY <1>8, <1>10, <2>1, <2>2, NoEditIs DEF AgentInv, Ghosts, SetsKids, Here
<1>16. RowsBound'
  <2>1. \A a \in Agent : agent'[a].is = "here" => agent'[a] = agent[a]
    BY <1>5, <1>7
  <2>2. "row" \notin races => \A a \in Agent : agent'[a].all \subseteq agent'[a].bound
    BY <1>5, <1>7 DEF AgentInv, RowsBound
  <2>3. \A f \in Editor : edit[f].op = "update" => edit[f].agent \in Agent
    BY DEF AgentInv, EditsFit
  <2> QED
    BY <1>6, <1>8, <2>1, <2>2, <2>3, NoEditIs DEF AgentInv, RowsBound, Here
<1>17. Versions' /\ OneVersion'
  BY <1>6, <1>8, NoEditIs DEF AgentInv, Versions, OneVersion
<1> QED
  BY <1>11, <1>12, <1>13, <1>14, <1>15, <1>16, <1>17 DEF AgentInv

LEMMA VersionKeeps ==
  ASSUME AgentInv, NEW e \in Editor, SaveVersion(e)
  PROVE  AgentInv'
<1>1. PICK t \in EditRec : t = edit[e]
  BY DEF AgentInv, AgentTypes
<1>2. t.op = "publish" /\ t.pc = "selected"
  BY <1>1 DEF SaveVersion
<1>3. t.agent \in Agent /\ t.at \in 1 .. edits /\ t.at \in 1 .. MaxEdits /\ t.at # 0 /\ t.row \in Rows
  BY <1>1, <1>2 DEF AgentInv, AgentTypes, EditsFit, EditRec
<1>4. PICK n : n = [agent |-> t.agent, at |-> t.at, active |-> TRUE, row |-> t.row]
  OBVIOUS
<1>5. n \in VersionRec /\ n.agent = t.agent /\ n.at = t.at /\ n.active
  BY <1>3, <1>4 DEF VersionRec
<1>6. PICK R : R = {Retired(v, t.gone) : v \in version}
  OBVIOUS
<1>7. version' = R \cup {n} /\ last' = [last EXCEPT ![t.agent] = t.at] /\ edit' = [edit EXCEPT ![e] = NoEdit]
      /\ UNCHANGED <<agent, kids, edits, races, ran>>
  BY <1>1, <1>4, <1>6 DEF SaveVersion
<1>8. ASSUME NEW v \in version
      PROVE  /\ Retired(v, t.gone) \in VersionRec /\ Retired(v, t.gone).agent = v.agent /\ Retired(v, t.gone).at = v.at
             /\ Retired(v, t.gone).active <=> v.active /\ ~\E g \in t.gone : g.at = v.at
  <2>1. v \in VersionRec
    BY DEF AgentInv, AgentTypes
  <2>2. PICK b \in BOOLEAN : b = (v.active /\ ~\E g \in t.gone : g.at = v.at)
    BY <2>1 DEF VersionRec
  <2>3. Retired(v, t.gone) = [v EXCEPT !.active = b]
    BY <2>2 DEF Retired
  <2>4. PICK x : x = [v EXCEPT !.active = b]
    OBVIOUS
  <2>5. x \in VersionRec /\ x.agent = v.agent /\ x.at = v.at /\ (x.active <=> b)
    BY <2>1, <2>4 DEF VersionRec
  <2> QED
    BY <2>2, <2>3, <2>4, <2>5
(* Each version stays, retired where the publication has selected it.          *)
<1>9. \A x \in R : x \in VersionRec /\ \E v \in version :
        x.agent = v.agent /\ x.at = v.at /\ (x.active <=> v.active /\ ~\E g \in t.gone : g.at = v.at)
  BY <1>6, <1>8
<1>10. \A v \in version : \E x \in R :
         x.agent = v.agent /\ x.at = v.at /\ (x.active <=> v.active /\ ~\E g \in t.gone : g.at = v.at)
  BY <1>6, <1>8
<1>11. \A x, y \in R : x.at = y.at => x = y
  <2> SUFFICES ASSUME NEW x \in R, NEW y \in R, x.at = y.at PROVE x = y
    OBVIOUS
  <2>1. PICK v \in version : x = Retired(v, t.gone)
    BY <1>6
  <2>2. PICK w \in version : y = Retired(w, t.gone)
    BY <1>6
  <2>3. v.at = w.at
    BY <1>8, <2>1, <2>2
  <2>4. \A s, u \in version : s.at = u.at => s = u
    BY DEF AgentInv, Versions
  <2>5. v = w
    BY <2>3, <2>4
  <2> QED
    BY <2>1, <2>2, <2>5
<1>12. edit' \in [Editor -> EditRec] /\ edit'[e] = NoEdit /\ \A f \in Editor : f # e => edit'[f] = edit[f]
  BY <1>7, NoEditIs DEF AgentInv, AgentTypes
<1>13. last' \in [Agent -> 0 .. MaxEdits] /\ last'[t.agent] = t.at /\ \A a \in Agent : a # t.agent => last'[a] = last[a]
  BY <1>3, <1>7 DEF AgentInv, AgentTypes
<1>14. AgentTypes'
  BY <1>5, <1>7, <1>9, <1>12, <1>13 DEF AgentInv, AgentTypes
<1>15. EditsFit' /\ NamesKnown'
  BY <1>7, <1>12, NoEditIs DEF AgentInv, EditsFit, NamesKnown, SetsKids, Fits
<1>16. Tree'
  BY <1>7, <1>12, NoEditIs DEF AgentInv, Tree, SetsKids
<1>17. Ghosts' /\ RowsBound'
  <2>1. Ghosts'
    BY <1>7, <1>12, GhostsRest DEF AgentInv
  <2>2. RowsBound'
    BY <1>7, <1>12, NoEditIs DEF AgentInv, RowsBound, Here
  <2> QED
    BY <2>1, <2>2
<1>18. \A v \in version : v.at # t.at /\ v.at <= edits
  BY <1>1, <1>2 DEF AgentInv, Versions
<1>19. \A g \in t.gone : \E v \in version : v.at = g.at /\ v.agent = t.agent
  BY <1>1, <1>2 DEF AgentInv, Versions
(* A version of another agent is not among those that are retired.             *)
<1>20. \A v \in version : v.agent # t.agent => ~\E g \in t.gone : g.at = v.at
  BY <1>19 DEF AgentInv, Versions
<1>21. Versions'
  <2>1. \A x \in version' : x.at <= edits'
    BY <1>3, <1>5, <1>7, <1>9, <1>18
  <2>2. \A x, y \in version' : x.at = y.at => x = y
    BY <1>5, <1>7, <1>9, <1>11, <1>18
  <2>3. ASSUME NEW f \in Editor, f # e, edit[f].op = "publish"
        PROVE  /\ \A x \in version' : x.at # edit[f].at
               /\ \A g \in edit[f].gone : \E x \in version' : x.at = g.at /\ x.agent = edit[f].agent
    <3>1. edit[f].at # t.at
      BY <1>1, <1>2, <2>3 DEF AgentInv, EditsFit
    <3>2. \A x \in version' : x.at # edit[f].at
      BY <1>5, <1>7, <1>9, <2>3, <3>1 DEF AgentInv, Versions
    <3>3. \A g \in edit[f].gone : \E v \in version : v.at = g.at /\ v.agent = edit[f].agent
      BY <2>3 DEF AgentInv, Versions
    <3> QED
      BY <1>7, <1>10, <3>2, <3>3
  <2>4. ASSUME NEW a \in Agent, last'[a] # 0 PROVE \E x \in version' : x.agent = a /\ x.active
    <3>1. CASE a = t.agent
      BY <1>5, <1>7, <3>1
    <3>2. CASE a # t.agent
      <4>1. PICK v \in version : v.agent = a /\ v.active
        BY <1>13, <2>4, <3>2 DEF AgentInv, Versions
      <4> QED
        BY <1>7, <1>10, <1>20, <3>2, <4>1
    <3> QED
      BY <3>1, <3>2
  <2> QED
    BY <1>12, <2>1, <2>2, <2>3, <2>4, NoEditIs DEF Versions
<1>22. OneVersion'
  <2> SUFFICES ASSUME "publish" \notin races PROVE OneVersion'
    BY <1>7 DEF OneVersion
  <2>1. \A x \in version' : x.active => x.at = last'[x.agent]
    <3> SUFFICES ASSUME NEW x \in version', x.active PROVE x.at = last'[x.agent]
      OBVIOUS
    <3>1. CASE x = n
      BY <1>5, <1>13, <3>1
    <3>2. CASE x \in R
      <4>1. PICK v \in version : x.agent = v.agent /\ x.at = v.at /\ v.active /\ ~\E g \in t.gone : g.at = v.at
        BY <1>9, <3>2
      <4>2. v.agent # t.agent
        BY <1>1, <1>2, <4>1 DEF AgentInv, OneVersion
      <4>3. v.agent \in Agent
        BY DEF AgentInv, AgentTypes, VersionRec
      <4> QED
        BY <1>13, <4>1, <4>2, <4>3 DEF AgentInv, OneVersion
    <3> QED
      BY <1>7, <3>1, <3>2
  <2>2. ASSUME NEW f \in Editor, f # e, edit[f].op = "publish", edit[f].pc = "selected",
               NEW x \in version', x.agent = edit[f].agent, x.active
        PROVE  \E g \in edit[f].gone : g.at = x.at
    <3>1. edit[f].agent # t.agent
      BY <1>1, <1>2, <2>2 DEF AgentInv, OneVersion
    <3>2. PICK v \in version : x.agent = v.agent /\ x.at = v.at /\ v.active
      BY <1>5, <1>7, <1>9, <2>2, <3>1
    <3> QED
      BY <2>2, <3>2 DEF AgentInv, OneVersion
  <2> QED
    BY <1>7, <1>12, <2>1, <2>2, NoEditIs DEF AgentInv, OneVersion
<1> QED
  BY <1>14, <1>15, <1>16, <1>17, <1>21, <1>22 DEF AgentInv

LEMMA ExecuteKeeps ==
  ASSUME AgentInv, NEW a \in Agent, Execute(a)
  PROVE  AgentInv'
<1>1. PICK S : S = ActiveVersions(a)
  OBVIOUS
<1>2. PICK v : v = ActiveVersion(a)
  OBVIOUS
<1>3. PICK G : G = FilteredTools(v.row)
  OBVIOUS
<1>4. ran' = [agent |-> a, at |-> v.at, due |-> last[a], grant |-> G] /\ S # {}
      /\ UNCHANGED <<agent, kids, version, edit, edits, races, last>>
  BY <1>1, <1>2, <1>3 DEF Execute
<1>5. G \subseteq Tools
  BY <1>3 DEF FilteredTools, ToolsSchema, Tools
<1>6. ran'.grant = G /\ ran'.at = v.at /\ ran'.due = last[a]
  BY <1>4
<1>7. AgentTypes'
  BY <1>4, <1>5, <1>6 DEF AgentInv, AgentTypes
<1>8. EditsFit' /\ NamesKnown' /\ RowsBound'
  BY <1>4 DEF AgentInv, EditsFit, NamesKnown, RowsBound, SetsKids, Fits, Here
<1>9. Tree' /\ Ghosts' /\ Versions'
  <2>1. Tree' /\ Versions'
    BY <1>4 DEF AgentInv, Tree, Versions, SetsKids
  <2>2. Ghosts'
    BY <1>4, GhostsRest DEF AgentInv
  <2> QED
    BY <2>1, <2>2
<1>10. ASSUME "publish" \notin races PROVE v.at = last[a]
  <2>1. \A x \in S : x.at = last[a] /\ last[a] \in Int
    BY <1>1, <1>10 DEF ActiveVersions, AgentInv, AgentTypes, OneVersion
  <2>2. \E x \in S : \A w \in S : w.at <= x.at
    BY <1>4, <2>1
  <2>3. v = CHOOSE x \in S : \A w \in S : w.at <= x.at
    BY <1>1, <1>2 DEF ActiveVersion
  <2>4. v \in S
    BY <2>2, <2>3
  <2> QED
    BY <2>1, <2>4
<1>11. OneVersion'
  BY <1>4, <1>6, <1>10 DEF AgentInv, OneVersion
<1> QED
  BY <1>7, <1>8, <1>9, <1>11 DEF AgentInv

LEMMA AgentSteps ==
  ASSUME AgentInv, ANext
  PROVE  AgentInv'
<1>1. ASSUME NEW e \in Editor, CreateAgent(e) PROVE AgentInv'
  <2>1. PICK a \in Agent, w \in AgentWishes :
          /\ agent[a].is = "new" /\ (\A o \in Open : edit[o].op = "create" => edit[o].agent # a)
          /\ Fits(NewRow, w) /\ Begin(e, "create", a, w)
    BY <1>1 DEF CreateAgent
  <2> QED
    BY <2>1, WishesAre, BeginKeeps
<1>2. ASSUME NEW e \in Editor, UpdateAgent(e) PROVE AgentInv'
  <2>1. PICK a \in Agent, w \in AgentWishes : Here(a) /\ Fits(agent[a], w) /\ Begin(e, "update", a, w)
    BY <1>2 DEF UpdateAgent
  <2>2. agent[a].is # "new"
    BY <2>1 DEF Here
  <2> QED
    BY <2>1, <2>2, WishesAre, BeginKeeps
<1>3. NoWish \in Wishes
  BY DEF NoWish, Wishes, WishNames
<1>4. ASSUME NEW e \in Editor, DeleteAgent(e) PROVE AgentInv'
  <2>1. PICK a \in Agent : Here(a) /\ Begin(e, "delete", a, NoWish)
    BY <1>4 DEF DeleteAgent
  <2>2. agent[a].is # "new"
    BY <2>1 DEF Here
  <2> QED
    BY <1>3, <2>1, <2>2, BeginKeeps
<1>5. ASSUME NEW e \in Editor, Publish(e) PROVE AgentInv'
  <2>1. PICK a \in Agent : Here(a) /\ Begin(e, "publish", a, NoWish)
    BY <1>5 DEF Publish, Loaded
  <2>2. agent[a].is # "new"
    BY <2>1 DEF Here
  <2> QED
    BY <1>3, <2>1, <2>2, BeginKeeps
<1> QED
  BY <1>1, <1>2, <1>4, <1>5, SelectKeeps, ReadyKeeps, SaveKeeps, RemoveKeeps, VersionKeeps, ExecuteKeeps DEF ANext

LEMMA AgentMeans == AgentInv => CatalogHolds
<1> SUFFICES ASSUME AgentInv PROVE CatalogHolds
  OBVIOUS
<1>1. ATypeOK
  BY DEF AgentInv, AgentTypes, ATypeOK, EditRec, VersionRec
<1>2. NoCycle /\ NoGhost /\ AllAreBound
  BY DEF AgentInv, Tree, Ghosts, RowsBound, NoCycle, NoGhost, AllAreBound
<1>3. \A a \in Agent : last[a] # 0 => ActiveVersions(a) # {}
  BY DEF AgentInv, Versions, ActiveVersions
<1>4. "publish" \in races \/ ((\A a \in Agent : \A v, w \in ActiveVersions(a) : v = w) /\ ran.at = ran.due)
  BY DEF AgentInv, Versions, OneVersion, ActiveVersions
<1> QED
  BY <1>1, <1>2, <1>3, <1>4 DEF CatalogHolds, Published

-----------------------------------------------------------------------------
(* The pets of the users: the maps they send, and the rows they play.          *)

LEMMA MapsAre ==
  ASSUME NEW S, NEW T
  PROVE  /\ \A m \in Partial(S, T) : DOMAIN m \subseteq S /\ m \in [DOMAIN m -> T]
         /\ \A A \in SUBSET S : \A m \in [A -> T] : m \in Partial(S, T)
<1>1. \A m : m \in Partial(S, T) <=> \E A \in SUBSET S : m \in [A -> T]
  BY DEF Partial
<1> QED
  BY <1>1

NoMap == << >>
LEMMA NoMapIs == NoMap \in Namings /\ DOMAIN NoMap = {} /\ NoMap \in StateMaps
<1>1. << >> \in [{} -> PetName] /\ << >> \in [{} -> SheetRows]
  OBVIOUS
<1>2. \A f \in [{} -> PetName] : DOMAIN f = {}
  OBVIOUS
<1> QED
  BY <1>1, <1>2, MapsAre DEF Namings, NoMap, StateMaps

(* A pet shows the idle state: the package's map has it.                       *)
LEMMA IdleShown ==
  ASSUME NEW s \in StateMaps, NEW m \in Mappings
  PROVE  Joined(s, Joined(m, StandardRow))["idle"] \in SheetRows
<1>1. m \in Partial(RowStates, SheetRows) /\ "idle" \in DOMAIN m
  BY DEF Mappings, StateMaps
<1>2. m["idle"] \in SheetRows
  BY <1>1, MapsAre
<1>3. \A x \in DOMAIN s : s[x] \in SheetRows
  BY MapsAre DEF StateMaps
<1>4. PICK j : j = Joined(m, StandardRow)
  OBVIOUS
<1>5. "idle" \in DOMAIN j /\ j["idle"] = m["idle"]
  BY <1>1, <1>4 DEF Joined
<1>6. Joined(s, j)["idle"] = IF "idle" \in DOMAIN s THEN s["idle"] ELSE j["idle"]
  BY <1>5 DEF Joined
<1> QED
  BY <1>2, <1>3, <1>4, <1>5, <1>6

LEMMA LeastIs ==
  ASSUME NEW S \in SUBSET Nat, S # {}
  PROVE  \E m \in S : \A n \in S : m <= n
<1> DEFINE R == OpToRel(<, Nat)
<1>1. IsWellFoundedOn(R, Nat)
  BY NatLessThanWellFounded
<1>2. \A a, b \in Nat : a < b => <<a, b>> \in R
  BY DEF OpToRel
<1> HIDE DEF R
<1>3. PICK m \in S : \A n \in S : <<n, m>> \notin R
  BY <1>1, WFMin
<1>4. \A n \in S : ~(n < m)
  BY <1>2, <1>3
<1> QED
  BY <1>3, <1>4

(* A name that some line of the sheet bears is borne by a first and a last one. *)
LEMMA FirstAndLast ==
  ASSUME NEW S \in SUBSET SheetRows, S # {}
  PROVE  /\ (CHOOSE line \in S : \A n \in S : line <= n) \in S
         /\ (CHOOSE line \in S : \A n \in S : n <= line) \in S
<1>1. RowCount \in Nat /\ S \in SUBSET Nat /\ \A n \in S : n <= RowCount
  BY PetsAssumption DEF SheetRows
<1>2. \E m \in S : \A n \in S : m <= n
  BY <1>1, LeastIs
<1>3. PICK T : T = {k \in Nat : \A n \in S : n <= k}
  OBVIOUS
<1>4. T \in SUBSET Nat /\ T # {}
  BY <1>1, <1>3
<1>5. PICK k \in T : \A j \in T : k <= j
  BY <1>4, LeastIs
<1>6. k \in Nat /\ \A n \in S : n \in Nat /\ n <= k
  BY <1>1, <1>3, <1>5
<1>7. k \in S
  <2> SUFFICES ASSUME k \notin S PROVE FALSE
    OBVIOUS
  <2>1. \A n \in S : n < k
    BY <1>6
  <2>2. k # 0
    BY <1>6, <2>1
  <2>3. k - 1 \in T
    BY <1>3, <1>6, <2>1, <2>2
  <2>4. k <= k - 1
    BY <1>5, <2>3
  <2> QED
    BY <1>6, <2>4
<1>8. \E m \in S : \A n \in S : n <= m
  BY <1>6, <1>7
<1> QED
  BY <1>2, <1>8

-----------------------------------------------------------------------------
(* The pets of the users: what their requests keep.                            *)

ActRec == [name : RowNames, state : RowStates \cup {NoState}]
PkgRec == [owner : PetUser, vis : Visibility, down : BOOLEAN, deflt : PetAgent \cup {NoPetAgent}, map : Mappings,
           acts : Partial(SheetRows, ActRec), moved : BOOLEAN]
PetRec == [active : BOOLEAN, agent : PetAgent \cup {NoPetAgent}, said : Nat, chats : Nat, alias : Namings,
           states : StateMaps]
PetTypes ==
    /\ IsFiniteSet(born) /\ born \subseteq PetPkg /\ DOMAIN pkg \subseteq born
    /\ \A p \in DOMAIN pkg : pkg[p] \in PkgRec
    /\ \A x \in DOMAIN pet : x \in PetUser \X PetPkg /\ x[2] \in born /\ pet[x] \in PetRec
    /\ DOMAIN plays = {"bubble", "tool"}
AskTyped(a) ==
    /\ a.op \in {"none", "upload", "delete", "adopt", "activate", "bubble", "chat"} /\ "op" \in DOMAIN a
    /\ a.op # "none" => {"user", "pkg"} \subseteq DOMAIN a /\ a.user \in PetUser /\ a.pkg \in PetPkg
    /\ a.op = "upload" => a.vis \in Visibility /\ a.map \in Mappings
    /\ a.op \in {"activate", "bubble", "chat"} => "rows" \in DOMAIN a /\ \A x \in a.rows : x[1] = a.user
    /\ a.op \in {"bubble", "chat"} => \A x \in a.rows : x = <<a.user, a.pkg>>
    /\ a.op = "chat" => "new" \in DOMAIN a
(* Who uploads has the id and the objects for himself; one request at a time   *)
(* deletes a package; the rows a request has read are there, or it has lost    *)
(* them.                                                                       *)
AsksFit ==
    /\ DOMAIN ask = PetAsk /\ \A r \in PetAsk : \A a : a = ask[r] => AskTyped(a)
    /\ \A r \in PetAsk : ask[r].op = "upload" => ask[r].pkg \in born \cap sheet /\ ask[r].pkg \notin DOMAIN pkg
    /\ \A r, s \in PetAsk : ask[r].op = "upload" /\ ask[s].op = "upload" /\ ask[r].pkg = ask[s].pkg => r = s
    /\ \A r \in PetAsk : ask[r].op = "delete" => ask[r].pkg \in DOMAIN pkg
    /\ \A r, s \in PetAsk : ask[r].op = "delete" /\ ask[s].op = "delete" /\ ask[r].pkg = ask[s].pkg => r = s
    /\ \A r \in PetAsk : ask[r].op \in {"activate", "bubble", "chat"} => ask[r].rows \subseteq DOMAIN pet
SheetsKept == \A p \in DOMAIN pkg : p \in sheet \/ p \in torn \/ \E r \in PetAsk : ask[r].op = "delete" /\ ask[r].pkg = p
(* As long as no two requests of a kind overlap there is room for the one that *)
(* is under way.                                                               *)
PackagesFew == \A u \in PetUser \ PetAdmin :
    \/ \E p \in born : <<"upload", u, p>> \in crowd
    \/ /\ \A S : S = Packages(u) =>
            /\ Cardinality(S) <= MaxPackages
            /\ \A r \in PetAsk : ask[r].op = "upload" /\ ask[r].user = u => Cardinality(S) < MaxPackages
       /\ \A r, s \in PetAsk : ask[r].op = "upload" /\ ask[s].op = "upload" /\ ask[r].user = u /\ ask[s].user = u => r = s
BubblesFew == \A u \in PetUser, p \in PetPkg :
    \/ <<"bubble", u, p>> \in crowd
    \/ /\ <<u, p>> \in DOMAIN pet => pet[<<u, p>>].said <= BubbleLimit
       /\ \A r \in PetAsk : ask[r].op = "bubble" /\ <<u, p>> \in ask[r].rows => pet[<<u, p>>].said < BubbleLimit
       /\ \A r, s \in PetAsk : /\ ask[r].op = "bubble" /\ ask[r].user = u /\ ask[r].pkg = p
                               /\ ask[s].op = "bubble" /\ ask[s].user = u /\ ask[s].pkg = p
                               => r = s
ChatsFew == \A u \in PetUser, p \in PetPkg :
    \/ <<"chat", u, p>> \in crowd \/ <<"new", u, p>> \in crowd
    \/ /\ <<u, p>> \in DOMAIN pet => pet[<<u, p>>].chats <= 1
       /\ \A r \in PetAsk : ask[r].op = "chat" /\ <<u, p>> \in ask[r].rows => ask[r].new \/ pet[<<u, p>>].chats = 0
       /\ \A r, s \in PetAsk : /\ ask[r].op = "chat" /\ ask[r].user = u /\ ask[r].pkg = p
                               /\ ask[s].op = "chat" /\ ask[s].user = u /\ ask[s].pkg = p
                               => r = s
StatesShown == \A p \in DOMAIN pkg : ~pkg[p].moved =>
    \A line \in DOMAIN pkg[p].acts : \A m : m = pkg[p].map => pkg[p].acts[line].state \in {NoState, StateOf(m, line)}
(* What was played is a line that bears the name.                               *)
PlaysNamed == \A by \in {"bubble", "tool"} : plays[by] # NotPlayed =>
    plays[by].row \in SheetRows /\ plays[by].names[plays[by].row] = plays[by].name
PetInv == /\ PetTypes /\ AsksFit /\ SheetsKept /\ OneActivePet /\ PackagesFew /\ BubblesFew /\ ChatsFew
          /\ StatesShown /\ PlaysNamed

LEMMA PetMeans == PetInv => PetsHold
<1> SUFFICES ASSUME PetInv PROVE PetsHold
  OBVIOUS
<1>1. \A p \in DOMAIN pkg : /\ p \in born /\ (p \in sheet \/ Deleting(p) \/ p \in torn)
                            /\ pkg[p].map \in Mappings /\ DOMAIN pkg[p].acts \subseteq SheetRows
  BY MapsAre DEF PetInv, PetTypes, PkgRec, SheetsKept, Deleting
<1>2. ASSUME NEW x \in DOMAIN pet
      PROVE  /\ x[2] \in born /\ pet[x].alias \in Namings /\ pet[x].states \in StateMaps
             /\ x[2] \in DOMAIN pkg => Shows(x)["idle"] \in SheetRows
  <2>1. x[2] \in born /\ pet[x].alias \in Namings /\ pet[x].states \in StateMaps
    BY DEF PetInv, PetTypes, PetRec
  <2>2. x[2] \in DOMAIN pkg => pkg[x[2]].map \in Mappings
    BY <1>1
  <2> QED
    BY <2>1, <2>2, IdleShown DEF Shows
<1>3. PetsTyped
  BY <1>1, <1>2 DEF PetsTyped
<1>4. LimitsKept
  <2>1. ASSUME NEW u \in PetUser \ PetAdmin, Cardinality(Packages(u)) > MaxPackages
        PROVE  \E p \in born : <<"upload", u, p>> \in crowd
    <3>1. PICK S : S = Packages(u)
      OBVIOUS
    <3>2. IsFiniteSet(S)
      <4>1. S \subseteq born /\ IsFiniteSet(born)
        BY <3>1 DEF Packages, PetInv, PetTypes
      <4> QED
        BY <4>1, FS_Subset
    <3>3. Cardinality(S) \in Nat /\ MaxPackages \in Nat
      BY <3>2, FS_CardinalityType, PetsAssumption
    <3> QED
      BY <2>1, <3>1, <3>3 DEF PetInv, PackagesFew
  <2>2. ASSUME NEW x \in DOMAIN pet
        PROVE  /\ pet[x].said > BubbleLimit => <<"bubble", x[1], x[2]>> \in crowd
               /\ pet[x].chats > 1 => {<<"chat", x[1], x[2]>>, <<"new", x[1], x[2]>>} \cap crowd # {}
    <3>1. PICK u \in PetUser, p \in PetPkg : x = <<u, p>>
      BY DEF PetInv, PetTypes
    <3>2. pet[x] \in PetRec
      BY DEF PetInv, PetTypes
    <3>3. pet[x].said \in Nat /\ pet[x].chats \in Nat /\ BubbleLimit \in Nat
      BY <3>2, PetsAssumption DEF PetRec
    <3>4. pet[x].said > BubbleLimit => <<"bubble", u, p>> \in crowd
      BY <3>1, <3>3 DEF PetInv, BubblesFew
    <3>5. pet[x].chats > 1 => <<"chat", u, p>> \in crowd \/ <<"new", u, p>> \in crowd
      BY <3>1, <3>3 DEF PetInv, ChatsFew
    <3> QED
      BY <3>1, <3>4, <3>5
  <2> QED
    BY <2>1, <2>2 DEF LimitsKept
<1>5. NamesMean
  <2>1. \A p \in DOMAIN pkg : ~pkg[p].moved =>
          \A line \in DOMAIN pkg[p].acts : pkg[p].acts[line].state \in {NoState, StateOf(pkg[p].map, line)}
    BY DEF PetInv, StatesShown
  <2> QED
    BY <2>1 DEF PetInv, PlaysNamed, NamesMean
<1> QED
  BY <1>3, <1>4, <1>5 DEF PetInv, PetsHold

LEMMA PetRests ==
  ASSUME PetInv, UNCHANGED pvars
  PROVE  PetInv'
<1>1. PetTypes' /\ AsksFit' /\ SheetsKept'
  BY DEF pvars, PetInv, PetTypes, AsksFit, SheetsKept
<1>2. OneActivePet' /\ PackagesFew' /\ BubblesFew' /\ ChatsFew'
  BY DEF pvars, PetInv, OneActivePet, PackagesFew, BubblesFew, ChatsFew, Packages
<1>3. StatesShown' /\ PlaysNamed'
  BY DEF pvars, PetInv, StatesShown, PlaysNamed
<1> QED
  BY <1>1, <1>2, <1>3 DEF PetInv
-----------------------------------------------------------------------------
(* What most requests leave as it is.                                          *)

(* The requests under way go on, end, or lose rows that they have read.        *)
AsksLess == \A s \in PetAsk : ask'[s].op # "none" =>
    /\ ask'[s].op = ask[s].op /\ ask'[s].user = ask[s].user /\ ask'[s].pkg = ask[s].pkg
    /\ ask[s].op \in {"activate", "bubble", "chat"} => ask'[s].rows \subseteq ask[s].rows
    /\ ask[s].op = "chat" => ask'[s].new = ask[s].new
ActiveKept == \A x \in DOMAIN pet' : pet'[x].active => x \in DOMAIN pet /\ pet[x].active
SaidKept   == \A x \in DOMAIN pet' : pet'[x].said = 0 \/ (x \in DOMAIN pet /\ pet'[x].said = pet[x].said)
ChatsKept  == \A x \in DOMAIN pet' : pet'[x].chats = 0 \/ (x \in DOMAIN pet /\ pet'[x].chats = pet[x].chats)
OwnersKept == \A p \in DOMAIN pkg' : p \in DOMAIN pkg /\ pkg'[p].owner = pkg[p].owner

LEMMA ActiveKeeps ==
  ASSUME PetInv, ActiveKept
  PROVE  OneActivePet'
BY DEF PetInv, OneActivePet, ActiveKept

LEMMA PackagesAre ==
  ASSUME PetInv, NEW u
  PROVE  /\ IsFiniteSet(Packages(u)) /\ Cardinality(Packages(u)) \in Nat
         /\ \A S : S \subseteq Packages(u) => IsFiniteSet(S) /\ Cardinality(S) \in Nat /\ Cardinality(S) <= Cardinality(Packages(u))
<1>1. PICK P : P = Packages(u)
  OBVIOUS
<1>2. P \subseteq born /\ IsFiniteSet(born)
  BY <1>1 DEF Packages, PetInv, PetTypes
<1>3. IsFiniteSet(P)
  BY <1>2, FS_Subset
<1>4. \A S : S \subseteq P => IsFiniteSet(S) /\ Cardinality(S) <= Cardinality(P)
  BY <1>3, FS_Subset
<1> QED
  BY <1>1, <1>3, <1>4, FS_CardinalityType

LEMMA PackagesKeep ==
  ASSUME PetInv, AsksLess, OwnersKept, born \subseteq born', crowd \subseteq crowd'
  PROVE  PackagesFew'
<1> SUFFICES ASSUME NEW u \in PetUser \ PetAdmin, \A p \in born' : <<"upload", u, p>> \notin crowd'
             PROVE  /\ \A S : S = {p \in DOMAIN pkg' : pkg'[p].owner = u} =>
                         /\ Cardinality(S) <= MaxPackages
                         /\ \A r \in PetAsk : ask'[r].op = "upload" /\ ask'[r].user = u => Cardinality(S) < MaxPackages
                    /\ \A r, s \in PetAsk : ask'[r].op = "upload" /\ ask'[s].op = "upload" /\ ask'[r].user = u /\ ask'[s].user = u => r = s
  BY DEF PackagesFew, Packages
<1>1. PICK P : P = Packages(u)
  OBVIOUS
<1>2. \A p \in born : <<"upload", u, p>> \notin crowd
  OBVIOUS
<1>3. /\ Cardinality(P) <= MaxPackages
      /\ \A r \in PetAsk : ask[r].op = "upload" /\ ask[r].user = u => Cardinality(P) < MaxPackages
      /\ \A r, s \in PetAsk : ask[r].op = "upload" /\ ask[s].op = "upload" /\ ask[r].user = u /\ ask[s].user = u => r = s
  BY <1>1, <1>2 DEF PetInv, PackagesFew
<1>4. \A r \in PetAsk : ask'[r].op = "upload" => ask[r].op = "upload" /\ ask'[r].user = ask[r].user
  BY DEF AsksLess
<1>5. ASSUME NEW S, S = {p \in DOMAIN pkg' : pkg'[p].owner = u} PROVE Cardinality(S) \in Nat /\ Cardinality(S) <= Cardinality(P)
  <2>1. S \subseteq P
    BY <1>1, <1>5 DEF OwnersKept, Packages
  <2> QED
    BY <1>1, <2>1, PackagesAre
<1>6. Cardinality(P) \in Nat /\ MaxPackages \in Nat
  BY <1>1, PackagesAre, PetsAssumption
<1>7. ASSUME NEW S, S = {p \in DOMAIN pkg' : pkg'[p].owner = u}
      PROVE  /\ Cardinality(S) <= MaxPackages
             /\ \A r \in PetAsk : ask'[r].op = "upload" /\ ask'[r].user = u => Cardinality(S) < MaxPackages
  <2>1. Cardinality(S) \in Nat /\ Cardinality(S) <= Cardinality(P)
    BY <1>5, <1>7
  <2>2. Cardinality(S) <= MaxPackages
    BY <1>3, <1>6, <2>1
  <2>3. Cardinality(P) < MaxPackages => Cardinality(S) < MaxPackages
    BY <1>6, <2>1
  <2> QED
    BY <1>3, <1>4, <2>2, <2>3
<1> QED
  BY <1>3, <1>4, <1>7

LEMMA SaidIs == ASSUME PetInv, NEW x \in DOMAIN pet PROVE pet[x].said \in Nat /\ pet[x].chats \in Nat
<1>1. pet[x] \in PetRec
  BY DEF PetInv, PetTypes
<1> QED
  BY <1>1 DEF PetRec

LEMMA BubblesKeep ==
  ASSUME PetInv, AsksFit', AsksLess, SaidKept, crowd \subseteq crowd'
  PROVE  BubblesFew'
<1> SUFFICES ASSUME NEW u \in PetUser, NEW p \in PetPkg, <<"bubble", u, p>> \notin crowd'
             PROVE  /\ <<u, p>> \in DOMAIN pet' => pet'[<<u, p>>].said <= BubbleLimit
                    /\ \A r \in PetAsk : ask'[r].op = "bubble" /\ <<u, p>> \in ask'[r].rows => pet'[<<u, p>>].said < BubbleLimit
                    /\ \A r, s \in PetAsk : /\ ask'[r].op = "bubble" /\ ask'[r].user = u /\ ask'[r].pkg = p
                                            /\ ask'[s].op = "bubble" /\ ask'[s].user = u /\ ask'[s].pkg = p
                                            => r = s
  BY DEF BubblesFew
<1>1. PICK x : x = <<u, p>>
  OBVIOUS
<1>2. <<"bubble", u, p>> \notin crowd
  OBVIOUS
<1>3. /\ x \in DOMAIN pet => pet[x].said <= BubbleLimit
      /\ \A r \in PetAsk : ask[r].op = "bubble" /\ x \in ask[r].rows => pet[x].said < BubbleLimit
      /\ \A r, s \in PetAsk : /\ ask[r].op = "bubble" /\ ask[r].user = u /\ ask[r].pkg = p
                              /\ ask[s].op = "bubble" /\ ask[s].user = u /\ ask[s].pkg = p
                              => r = s
  BY <1>1, <1>2 DEF PetInv, BubblesFew
<1>4. BubbleLimit \in Nat
  BY PetsAssumption
<1>5. x \in DOMAIN pet' => pet'[x].said <= BubbleLimit
  BY <1>3, <1>4 DEF SaidKept
<1>6. ASSUME NEW r \in PetAsk, ask'[r].op = "bubble", x \in ask'[r].rows PROVE pet'[x].said < BubbleLimit
  <2>1. ask[r].op = "bubble" /\ x \in ask[r].rows
    BY <1>6 DEF AsksLess
  <2>2. x \in DOMAIN pet /\ pet[x].said < BubbleLimit
    BY <1>3, <2>1 DEF PetInv, AsksFit
  <2>3. x \in DOMAIN pet'
    BY <1>6 DEF AsksFit
  <2>4. pet[x].said \in Nat
    BY <2>2, SaidIs
  <2> QED
    BY <1>4, <2>2, <2>3, <2>4 DEF SaidKept
<1>7. \A r \in PetAsk : ask'[r].op = "bubble" => ask[r].op = "bubble" /\ ask'[r].user = ask[r].user /\ ask'[r].pkg = ask[r].pkg
  BY DEF AsksLess
<1> QED
  BY <1>1, <1>3, <1>5, <1>6, <1>7

LEMMA ChatsKeepFew ==
  ASSUME PetInv, AsksFit', AsksLess, ChatsKept, crowd \subseteq crowd'
  PROVE  ChatsFew'
<1> SUFFICES ASSUME NEW u \in PetUser, NEW p \in PetPkg, <<"chat", u, p>> \notin crowd', <<"new", u, p>> \notin crowd'
             PROVE  /\ <<u, p>> \in DOMAIN pet' => pet'[<<u, p>>].chats <= 1
                    /\ \A r \in PetAsk : ask'[r].op = "chat" /\ <<u, p>> \in ask'[r].rows => ask'[r].new \/ pet'[<<u, p>>].chats = 0
                    /\ \A r, s \in PetAsk : /\ ask'[r].op = "chat" /\ ask'[r].user = u /\ ask'[r].pkg = p
                                            /\ ask'[s].op = "chat" /\ ask'[s].user = u /\ ask'[s].pkg = p
                                            => r = s
  BY DEF ChatsFew
<1>1. PICK x : x = <<u, p>>
  OBVIOUS
<1>2. <<"chat", u, p>> \notin crowd /\ <<"new", u, p>> \notin crowd
  OBVIOUS
<1>3. /\ x \in DOMAIN pet => pet[x].chats <= 1
      /\ \A r \in PetAsk : ask[r].op = "chat" /\ x \in ask[r].rows => ask[r].new \/ pet[x].chats = 0
      /\ \A r, s \in PetAsk : /\ ask[r].op = "chat" /\ ask[r].user = u /\ ask[r].pkg = p
                              /\ ask[s].op = "chat" /\ ask[s].user = u /\ ask[s].pkg = p
                              => r = s
  BY <1>1, <1>2 DEF PetInv, ChatsFew
<1>5. x \in DOMAIN pet' => pet'[x].chats <= 1
  BY <1>3 DEF ChatsKept
<1>6. ASSUME NEW r \in PetAsk, ask'[r].op = "chat", x \in ask'[r].rows, ~ask'[r].new PROVE pet'[x].chats = 0
  <2>1. ask[r].op = "chat" /\ x \in ask[r].rows /\ ~ask[r].new
    BY <1>6 DEF AsksLess
  <2>2. pet[x].chats = 0
    BY <1>3, <2>1
  <2>3. x \in DOMAIN pet'
    BY <1>6 DEF AsksFit
  <2> QED
    BY <2>2, <2>3 DEF ChatsKept
<1>7. \A r \in PetAsk : ask'[r].op = "chat" => ask[r].op = "chat" /\ ask'[r].user = ask[r].user /\ ask'[r].pkg = ask[r].pkg
  BY DEF AsksLess
<1> QED
  BY <1>1, <1>3, <1>5, <1>6, <1>7

(* A request ends.                                                             *)
LEMMA NoAskIs == NoAsk.op = "none" /\ AskTyped(NoAsk)
BY DEF NoAsk, AskTyped

LEMMA ClosedFits ==
  ASSUME PetInv, NEW r \in PetAsk, Closed(r), born' = born, sheet' = sheet, DOMAIN pet' = DOMAIN pet \/ DOMAIN pet \subseteq DOMAIN pet',
         \A s \in PetAsk : s # r /\ ask[s].op = "upload" => ask[s].pkg \notin DOMAIN pkg',
         \A s \in PetAsk : s # r /\ ask[s].op = "delete" => ask[s].pkg \in DOMAIN pkg'
  PROVE  /\ AsksFit' /\ AsksLess
         /\ ask'[r].op = "none" /\ \A s \in PetAsk : s # r => ask'[s] = ask[s]
<1>1. DOMAIN ask' = PetAsk /\ ask'[r] = NoAsk /\ \A s \in PetAsk : s # r => ask'[s] = ask[s]
  BY DEF Closed, PetInv, AsksFit
<1>2. \A s \in PetAsk : \A a : a = ask'[s] => AskTyped(a)
  BY <1>1, NoAskIs DEF PetInv, AsksFit
<1>3. AsksFit'
  BY <1>1, <1>2, NoAskIs DEF PetInv, AsksFit
<1> QED
  BY <1>1, <1>3, NoAskIs DEF AsksLess

-----------------------------------------------------------------------------
(* A request begins.                                                           *)

LEMMA AskedKeeps ==
  ASSUME PetInv, NEW r \in PetAsk, NEW a, Asked(r, a), AskTyped(a), a.op # "none", UNCHANGED <<pkg, pet, plays, torn>>,
         a.op = "upload" => /\ a.pkg \in PetPkg \ born /\ born' = born \cup {a.pkg} /\ sheet' = sheet \cup {a.pkg}
                            /\ Cardinality(Packages(a.user)) < MaxPackages \/ a.user \in PetAdmin,
         a.op # "upload" => born' = born,
         a.op = "delete" => a.pkg \in DOMAIN pkg /\ ~Deleting(a.pkg) /\ sheet' = sheet \ {a.pkg},
         a.op \notin {"upload", "delete"} => sheet' = sheet,
         a.op \in {"activate", "bubble", "chat"} => a.rows \subseteq DOMAIN pet,
         a.op = "bubble" => pet[<<a.user, a.pkg>>].said < BubbleLimit,
         a.op = "chat" => a.new \/ pet[<<a.user, a.pkg>>].chats = 0
  PROVE  PetInv'
<1>1. ask[r] = NoAsk /\ ask' = [ask EXCEPT ![r] = a] /\ ask[r].op = "none" /\ DOMAIN ask = PetAsk
  BY NoAskIs DEF Asked, PetInv, AsksFit
<1>2. DOMAIN ask' = PetAsk /\ ask'[r] = a /\ \A s \in PetAsk : s # r => ask'[s] = ask[s]
  BY <1>1
<1>3. crowd \subseteq crowd' /\ \A c \in crowd' : c \in crowd \/ c = <<a.op, a.user, a.pkg>>
  BY DEF Asked
<1>4. ASSUME NEW s \in PetAsk, ask[s].op = a.op, ask[s].user = a.user,
             a.op = "upload" \/ (a.op \in {"bubble", "chat"} /\ ask[s].pkg = a.pkg)
      PROVE  <<a.op, a.user, a.pkg>> \in crowd'
  BY <1>4 DEF Asked
<1>5. born \subseteq born' /\ \A b \in born' : b \in born \/ (a.op = "upload" /\ b = a.pkg)
  OBVIOUS
<1>6. IsFiniteSet(born') /\ born' \subseteq PetPkg
  BY FS_AddElement DEF PetInv, PetTypes
<1>7. PetTypes'
  BY <1>5, <1>6 DEF PetInv, PetTypes
<1>8. a.user \in PetUser /\ a.pkg \in PetPkg
  BY DEF AskTyped
<1>9. AsksFit'
  <2>1. \A s \in PetAsk : \A b : b = ask'[s] => AskTyped(b)
    BY <1>2 DEF PetInv, AsksFit
  <2>2. ASSUME NEW s \in PetAsk, ask'[s].op = "upload" PROVE ask'[s].pkg \in born' \cap sheet' /\ ask'[s].pkg \notin DOMAIN pkg'
    <3>1. CASE s = r
      BY <1>2, <2>2, <3>1 DEF PetInv, PetTypes
    <3>2. CASE s # r
      <4>1. ask'[s] = ask[s] /\ ask[s].pkg \in born \cap sheet /\ ask[s].pkg \notin DOMAIN pkg
        BY <1>2, <2>2, <3>2 DEF PetInv, AsksFit
      <4> QED
        BY <1>5, <4>1
    <3> QED
      BY <3>1, <3>2
  <2>3. \A s \in PetAsk : ask[s].op = "upload" => ask[s].pkg \in born
    BY DEF PetInv, AsksFit
  <2>4. \A s, q \in PetAsk : ask'[s].op = "upload" /\ ask'[q].op = "upload" /\ ask'[s].pkg = ask'[q].pkg => s = q
    BY <1>2, <2>3 DEF PetInv, AsksFit
  <2>5. \A s \in PetAsk : ask'[s].op = "delete" => ask'[s].pkg \in DOMAIN pkg'
    BY <1>2 DEF PetInv, AsksFit
  <2>6. \A s, q \in PetAsk : ask'[s].op = "delete" /\ ask'[q].op = "delete" /\ ask'[s].pkg = ask'[q].pkg => s = q
    BY <1>2 DEF PetInv, AsksFit, Deleting
  <2>7. \A s \in PetAsk : ask'[s].op \in {"activate", "bubble", "chat"} => ask'[s].rows \subseteq DOMAIN pet'
    BY <1>2 DEF PetInv, AsksFit
  <2> QED
    BY <1>2, <2>1, <2>2, <2>4, <2>5, <2>6, <2>7 DEF AsksFit
<1>10. SheetsKept'
  <2> SUFFICES ASSUME NEW p \in DOMAIN pkg
               PROVE  p \in sheet' \/ p \in torn \/ \E s \in PetAsk : ask'[s].op = "delete" /\ ask'[s].pkg = p
    BY DEF SheetsKept
  <2>1. CASE a.op = "delete" /\ a.pkg = p
    BY <1>2, <2>1
  <2>2. CASE ~(a.op = "delete" /\ a.pkg = p)
    <3>1. p \in sheet => p \in sheet'
      BY <2>2
    <3>2. \A s \in PetAsk : ask[s].op = "delete" => ask'[s] = ask[s]
      BY <1>1, <1>2
    <3> QED
      BY <3>1, <3>2 DEF PetInv, SheetsKept
  <2> QED
    BY <2>1, <2>2
<1>11. OneActivePet' /\ StatesShown' /\ PlaysNamed'
  BY DEF PetInv, OneActivePet, StatesShown, PlaysNamed
<1>12. PackagesFew'
  <2> SUFFICES ASSUME NEW u \in PetUser \ PetAdmin, \A p \in born' : <<"upload", u, p>> \notin crowd'
               PROVE  /\ \A S : S = Packages(u) =>
                           /\ Cardinality(S) <= MaxPackages
                           /\ \A s \in PetAsk : ask'[s].op = "upload" /\ ask'[s].user = u => Cardinality(S) < MaxPackages
                      /\ \A s, q \in PetAsk : ask'[s].op = "upload" /\ ask'[q].op = "upload" /\ ask'[s].user = u /\ ask'[q].user = u => s = q
    BY DEF PackagesFew, Packages
  <2>1. /\ \A S : S = Packages(u) =>
             /\ Cardinality(S) <= MaxPackages
             /\ \A s \in PetAsk : ask[s].op = "upload" /\ ask[s].user = u => Cardinality(S) < MaxPackages
        /\ \A s, q \in PetAsk : ask[s].op = "upload" /\ ask[q].op = "upload" /\ ask[s].user = u /\ ask[q].user = u => s = q
    BY <1>3, <1>5 DEF PetInv, PackagesFew
  <2>2. CASE ~(a.op = "upload" /\ a.user = u)
    BY <1>1, <1>2, <2>1, <2>2
  <2>3. CASE a.op = "upload" /\ a.user = u
    <3>1. \A s \in PetAsk : ask[s].op = "upload" => ask[s].user # u
      BY <1>4, <2>3
    <3> QED
      BY <1>1, <1>2, <2>1, <2>3, <3>1
  <2> QED
    BY <2>2, <2>3
<1>13. BubblesFew'
  <2> SUFFICES ASSUME NEW u \in PetUser, NEW p \in PetPkg, <<"bubble", u, p>> \notin crowd'
               PROVE  /\ <<u, p>> \in DOMAIN pet => pet[<<u, p>>].said <= BubbleLimit
                      /\ \A s \in PetAsk : ask'[s].op = "bubble" /\ <<u, p>> \in ask'[s].rows => pet[<<u, p>>].said < BubbleLimit
                      /\ \A s, q \in PetAsk : /\ ask'[s].op = "bubble" /\ ask'[s].user = u /\ ask'[s].pkg = p
                                              /\ ask'[q].op = "bubble" /\ ask'[q].user = u /\ ask'[q].pkg = p
                                              => s = q
    BY DEF BubblesFew
  <2>1. /\ <<u, p>> \in DOMAIN pet => pet[<<u, p>>].said <= BubbleLimit
        /\ \A s \in PetAsk : ask[s].op = "bubble" /\ <<u, p>> \in ask[s].rows => pet[<<u, p>>].said < BubbleLimit
        /\ \A s, q \in PetAsk : /\ ask[s].op = "bubble" /\ ask[s].user = u /\ ask[s].pkg = p
                                /\ ask[q].op = "bubble" /\ ask[q].user = u /\ ask[q].pkg = p
                                => s = q
    BY <1>3 DEF PetInv, BubblesFew
  <2>2. a.op = "bubble" => \A x \in a.rows : x = <<a.user, a.pkg>>
    BY DEF AskTyped
  <2>3. \A s \in PetAsk : ask'[s].op = "bubble" /\ <<u, p>> \in ask'[s].rows => pet[<<u, p>>].said < BubbleLimit
    BY <1>2, <2>1, <2>2
  <2>4. a.op = "bubble" /\ a.user = u /\ a.pkg = p => \A s \in PetAsk : ~(ask[s].op = "bubble" /\ ask[s].user = u /\ ask[s].pkg = p)
    BY <1>4
  <2>5. \A s, q \in PetAsk : /\ ask'[s].op = "bubble" /\ ask'[s].user = u /\ ask'[s].pkg = p
                            /\ ask'[q].op = "bubble" /\ ask'[q].user = u /\ ask'[q].pkg = p
                            => s = q
    BY <1>2, <2>1, <2>4
  <2> QED
    BY <2>1, <2>3, <2>5
<1>14. ChatsFew'
  <2> SUFFICES ASSUME NEW u \in PetUser, NEW p \in PetPkg, <<"chat", u, p>> \notin crowd', <<"new", u, p>> \notin crowd'
               PROVE  /\ <<u, p>> \in DOMAIN pet => pet[<<u, p>>].chats <= 1
                      /\ \A s \in PetAsk : ask'[s].op = "chat" /\ <<u, p>> \in ask'[s].rows => ask'[s].new \/ pet[<<u, p>>].chats = 0
                      /\ \A s, q \in PetAsk : /\ ask'[s].op = "chat" /\ ask'[s].user = u /\ ask'[s].pkg = p
                                              /\ ask'[q].op = "chat" /\ ask'[q].user = u /\ ask'[q].pkg = p
                                              => s = q
    BY DEF ChatsFew
  <2>1. /\ <<u, p>> \in DOMAIN pet => pet[<<u, p>>].chats <= 1
        /\ \A s \in PetAsk : ask[s].op = "chat" /\ <<u, p>> \in ask[s].rows => ask[s].new \/ pet[<<u, p>>].chats = 0
        /\ \A s, q \in PetAsk : /\ ask[s].op = "chat" /\ ask[s].user = u /\ ask[s].pkg = p
                                /\ ask[q].op = "chat" /\ ask[q].user = u /\ ask[q].pkg = p
                                => s = q
    BY <1>3 DEF PetInv, ChatsFew
  <2>2. a.op = "chat" => \A x \in a.rows : x = <<a.user, a.pkg>>
    BY DEF AskTyped
  <2>3. \A s \in PetAsk : ask'[s].op = "chat" /\ <<u, p>> \in ask'[s].rows => ask'[s].new \/ pet[<<u, p>>].chats = 0
    BY <1>2, <2>1, <2>2
  <2>4. a.op = "chat" /\ a.user = u /\ a.pkg = p => \A s \in PetAsk : ~(ask[s].op = "chat" /\ ask[s].user = u /\ ask[s].pkg = p)
    BY <1>4
  <2>5. \A s, q \in PetAsk : /\ ask'[s].op = "chat" /\ ask'[s].user = u /\ ask'[s].pkg = p
                            /\ ask'[q].op = "chat" /\ ask'[q].user = u /\ ask'[q].pkg = p
                            => s = q
    BY <1>2, <2>1, <2>4
  <2> QED
    BY <2>1, <2>3, <2>5
<1> QED
  BY <1>7, <1>9, <1>10, <1>11, <1>12, <1>13, <1>14 DEF PetInv

LEMMA BeginsKeep ==
  ASSUME PetInv, NEW r \in PetAsk, NEW u \in PetUser, NEW p \in PetPkg,
         \/ \E v \in Visibility, m \in RowMaps : CreatePackage(r, u, p, v, m)
         \/ DeletePackage(r, u, p) \/ Adopt(r, u, p) \/ Activate(r, u, p) \/ Bubble(r, u, p)
         \/ \E new \in BOOLEAN : Chat(r, u, p, new)
  PROVE  PetInv'
<1>1. ASSUME NEW v \in Visibility, NEW m \in RowMaps, CreatePackage(r, u, p, v, m) PROVE PetInv'
  <2>1. PICK a : a = [op |-> "upload", user |-> u, pkg |-> p, vis |-> v, map |-> m]
    OBVIOUS
  <2>2. a.op = "upload" /\ a.user = u /\ a.pkg = p /\ AskTyped(a)
    BY <2>1, RowMapsAssumption DEF AskTyped
  <2>3. /\ p \notin born /\ (Cardinality(Packages(u)) < MaxPackages \/ u \in PetAdmin) /\ Asked(r, a)
        /\ born' = born \cup {p} /\ sheet' = sheet \cup {p} /\ UNCHANGED <<pkg, pet, plays, torn>>
    BY <1>1, <2>1 DEF CreatePackage
  <2> QED
    BY <2>2, <2>3, AskedKeeps
<1>2. ASSUME DeletePackage(r, u, p) PROVE PetInv'
  <2>1. PICK a : a = [op |-> "delete", user |-> u, pkg |-> p]
    OBVIOUS
  <2>2. a.op = "delete" /\ a.user = u /\ a.pkg = p /\ AskTyped(a)
    BY <2>1 DEF AskTyped
  <2>3. /\ p \in DOMAIN pkg /\ ~Deleting(p) /\ Asked(r, a) /\ sheet' = sheet \ {p}
        /\ born' = born /\ UNCHANGED <<pkg, pet, plays, torn>>
    BY <1>2, <2>1 DEF DeletePackage, Rules
  <2> QED
    BY <2>2, <2>3, AskedKeeps
<1>3. ASSUME Adopt(r, u, p) PROVE PetInv'
  <2>1. PICK a : a = [op |-> "adopt", user |-> u, pkg |-> p]
    OBVIOUS
  <2>2. a.op = "adopt" /\ a.user = u /\ a.pkg = p /\ AskTyped(a)
    BY <2>1 DEF AskTyped
  <2>3. Asked(r, a) /\ sheet' = sheet /\ born' = born /\ UNCHANGED <<pkg, pet, plays, torn>>
    BY <1>3, <2>1 DEF Adopt
  <2> QED
    BY <2>2, <2>3, AskedKeeps
<1>4. ASSUME Activate(r, u, p) PROVE PetInv'
  <2>1. PICK R : R = {x \in DOMAIN pet : x[1] = u}
    OBVIOUS
  <2>2. PICK a : a = [op |-> "activate", user |-> u, pkg |-> p, rows |-> R]
    OBVIOUS
  <2>3. a.op = "activate" /\ a.user = u /\ a.pkg = p /\ a.rows = R /\ R \subseteq DOMAIN pet /\ AskTyped(a)
    BY <2>1, <2>2 DEF AskTyped
  <2>4. Asked(r, a) /\ sheet' = sheet /\ born' = born /\ UNCHANGED <<pkg, pet, plays, torn>>
    BY <1>4, <2>1, <2>2 DEF Activate
  <2> QED
    BY <2>3, <2>4, AskedKeeps
<1>5. ASSUME Bubble(r, u, p) PROVE PetInv'
  <2>1. PICK R, N : R = {<<u, p>>} /\ N = NamesOf(<<u, p>>)
    OBVIOUS
  <2>2. PICK a : a = [op |-> "bubble", user |-> u, pkg |-> p, rows |-> R, names |-> N]
    OBVIOUS
  <2>3. a.op = "bubble" /\ a.user = u /\ a.pkg = p /\ a.rows = R /\ AskTyped(a)
    BY <2>1, <2>2 DEF AskTyped
  <2>4. /\ <<u, p>> \in DOMAIN pet /\ pet[<<u, p>>].said < BubbleLimit
        /\ Asked(r, a) /\ sheet' = sheet /\ born' = born /\ UNCHANGED <<pkg, pet, plays, torn>>
    BY <1>5, <2>1, <2>2 DEF Bubble, HasQuota
  <2> QED
    BY <2>1, <2>3, <2>4, AskedKeeps
<1>6. ASSUME NEW new \in BOOLEAN, Chat(r, u, p, new) PROVE PetInv'
  <2>1. PICK R : R = {<<u, p>>}
    OBVIOUS
  <2>2. PICK a : a = [op |-> "chat", user |-> u, pkg |-> p, rows |-> R, new |-> new]
    OBVIOUS
  <2>3. a.op = "chat" /\ a.user = u /\ a.pkg = p /\ a.rows = R /\ a.new = new /\ AskTyped(a)
    BY <2>1, <2>2 DEF AskTyped
  <2>4. /\ <<u, p>> \in DOMAIN pet /\ (new \/ pet[<<u, p>>].chats = 0)
        /\ Asked(r, a) /\ sheet' = sheet /\ born' = born /\ UNCHANGED <<pkg, pet, plays, torn>>
    BY <1>6, <2>1, <2>2 DEF Chat
  <2> QED
    BY <2>1, <2>3, <2>4, AskedKeeps
<1> QED
  BY <1>1, <1>2, <1>3, <1>4, <1>5, <1>6

-----------------------------------------------------------------------------
(* A request ends.                                                             *)

LEMMA StateIs ==
  ASSUME NEW m, NEW line
  PROVE  StateOf(m, line) \in RowStates \cup {NoState}
BY DEF StateOf, RowStates

LEMMA NewPackageIs ==
  ASSUME NEW u \in PetUser, NEW v \in Visibility, NEW m \in Mappings, NEW k, k = NewPackage(u, v, m)
  PROVE  /\ k \in PkgRec /\ k.owner = u /\ k.map = m
         /\ \A line \in DOMAIN k.acts : k.acts[line].state = StateOf(m, line)
<1>1. PICK c : c = Catalogue(m)
  OBVIOUS
<1>2. ASSUME NEW line \in SheetRows PROVE c[line] \in ActRec /\ c[line].state = StateOf(m, line)
  <2>1. PICK s : s = StateOf(m, line)
    OBVIOUS
  <2>2. s \in RowStates \cup {NoState}
    BY <2>1, StateIs
  <2>3. PICK n : n = IF s = NoState THEN CodexName(line) ELSE s
    OBVIOUS
  <2>4. n \in RowNames
    BY <2>2, <2>3 DEF RowNames, CodexName, RowStates
  <2>5. c[line] = [name |-> n, state |-> s]
    BY <1>1, <2>1, <2>3 DEF Catalogue
  <2> QED
    BY <2>1, <2>2, <2>4, <2>5 DEF ActRec
<1>3. c \in [SheetRows -> ActRec]
  BY <1>1, <1>2 DEF Catalogue
<1>4. c \in Partial(SheetRows, ActRec) /\ DOMAIN c = SheetRows
  BY <1>3, MapsAre
<1>5. k = [owner |-> u, vis |-> v, down |-> FALSE, deflt |-> NoPetAgent, map |-> m, acts |-> c, moved |-> FALSE]
  BY <1>1 DEF NewPackage
<1> QED
  BY <1>2, <1>4, <1>5 DEF PkgRec

LEMMA NewPetIs == NewPet \in PetRec /\ ~NewPet.active /\ NewPet.said = 0 /\ NewPet.chats = 0
<1>1. NewPet = [active |-> FALSE, agent |-> NoPetAgent, said |-> 0, chats |-> 0, alias |-> NoMap, states |-> NoMap]
  BY DEF NewPet, NoMap
<1> QED
  BY <1>1, NoMapIs DEF PetRec

(* A pet more, that was not active and has said nothing.                       *)
LEMMA PetMore ==
  ASSUME PetInv, NEW u \in PetUser, NEW p \in born, pet' = Plus(pet, <<u, p>>, NewPet)
  PROVE  /\ DOMAIN pet \subseteq DOMAIN pet' /\ ActiveKept /\ SaidKept /\ ChatsKept
         /\ \A x \in DOMAIN pet' : x \in PetUser \X PetPkg /\ x[2] \in born /\ pet'[x] \in PetRec
<1>1. PICK y : y = <<u, p>>
  OBVIOUS
<1>2. y \in PetUser \X PetPkg /\ y[2] \in born
  BY <1>1 DEF PetInv, PetTypes
<1>5. PICK n : n = NewPet
  OBVIOUS
<1>6. pet' = Plus(pet, y, n)
  BY <1>1, <1>5
<1>7. DOMAIN pet' = DOMAIN pet \cup {y} /\ pet'[y] = n /\ \A x \in DOMAIN pet : x # y => pet'[x] = pet[x]
  BY <1>6 DEF Plus, Joined
<1>3. DOMAIN pet' = DOMAIN pet \cup {y} /\ pet'[y] = NewPet /\ \A x \in DOMAIN pet : x # y => pet'[x] = pet[x]
  BY <1>5, <1>7
<1>4. ActiveKept /\ SaidKept /\ ChatsKept
  BY <1>3, NewPetIs DEF ActiveKept, SaidKept, ChatsKept
<1> QED
  BY <1>2, <1>3, <1>4, NewPetIs DEF PetInv, PetTypes

LEMMA CreatedKeeps ==
  ASSUME PetInv, NEW r \in PetAsk, PackageCreated(r)
  PROVE  PetInv'
<1>1. PICK a : a = ask[r]
  OBVIOUS
<1>2. a.op = "upload" /\ a.user \in PetUser /\ a.pkg \in born \cap sheet /\ a.pkg \notin DOMAIN pkg
      /\ a.vis \in Visibility /\ a.map \in Mappings
  BY <1>1 DEF PackageCreated, PetInv, AsksFit, AskTyped
<1>3. PICK u, p, k : u = a.user /\ p = a.pkg /\ k = NewPackage(a.user, a.vis, a.map)
  OBVIOUS
<1>4. k \in PkgRec /\ k.owner = u /\ \A line \in DOMAIN k.acts : k.acts[line].state = StateOf(k.map, line)
  BY <1>2, <1>3, NewPackageIs
<1>5. Closed(r) /\ pkg' = Plus(pkg, p, k) /\ pet' = Plus(pet, <<u, p>>, NewPet)
      /\ UNCHANGED <<born, sheet, open, plays, asks, crowd, torn>>
  BY <1>1, <1>3 DEF PackageCreated
<1>6. DOMAIN pkg' = DOMAIN pkg \cup {p} /\ pkg'[p] = k /\ \A q \in DOMAIN pkg : q # p => pkg'[q] = pkg[q]
  BY <1>5 DEF Plus, Joined
<1>7. p \notin DOMAIN pkg /\ p \in born /\ p \in sheet /\ u \in PetUser
  BY <1>2, <1>3
<1>8. /\ DOMAIN pet \subseteq DOMAIN pet' /\ ActiveKept /\ SaidKept /\ ChatsKept
      /\ \A x \in DOMAIN pet' : x \in PetUser \X PetPkg /\ x[2] \in born /\ pet'[x] \in PetRec
  BY <1>5, <1>7, PetMore
<1>9. PetTypes'
  BY <1>4, <1>5, <1>6, <1>7, <1>8 DEF PetInv, PetTypes
<1>10. \A s \in PetAsk : s # r /\ ask[s].op = "upload" => ask[s].pkg \notin DOMAIN pkg'
  BY <1>1, <1>2, <1>3, <1>6 DEF PetInv, AsksFit
<1>11. \A s \in PetAsk : s # r /\ ask[s].op = "delete" => ask[s].pkg \in DOMAIN pkg'
  BY <1>6 DEF PetInv, AsksFit
<1>12. AsksFit' /\ AsksLess /\ ask'[r].op = "none" /\ \A s \in PetAsk : s # r => ask'[s] = ask[s]
  BY <1>5, <1>8, <1>10, <1>11, ClosedFits
<1>13. SheetsKept'
  BY <1>1, <1>2, <1>5, <1>6, <1>7, <1>12 DEF PetInv, SheetsKept
<1>14. OneActivePet' /\ BubblesFew' /\ ChatsFew'
  BY <1>5, <1>8, <1>12, ActiveKeeps, BubblesKeep, ChatsKeepFew
<1>15. StatesShown' /\ PlaysNamed'
  BY <1>4, <1>5, <1>6 DEF PetInv, StatesShown, PlaysNamed
<1>16. PackagesFew'
  <2> SUFFICES ASSUME NEW w \in PetUser \ PetAdmin, \A q \in born : <<"upload", w, q>> \notin crowd
               PROVE  /\ \A S : S = {q \in DOMAIN pkg' : pkg'[q].owner = w} =>
                           /\ Cardinality(S) <= MaxPackages
                           /\ \A s \in PetAsk : ask'[s].op = "upload" /\ ask'[s].user = w => Cardinality(S) < MaxPackages
                      /\ \A s, q \in PetAsk : ask'[s].op = "upload" /\ ask'[q].op = "upload" /\ ask'[s].user = w /\ ask'[q].user = w => s = q
    BY <1>5 DEF PackagesFew, Packages
  <2>1. PICK P : P = Packages(w)
    OBVIOUS
  <2>2. /\ Cardinality(P) <= MaxPackages
        /\ \A s \in PetAsk : ask[s].op = "upload" /\ ask[s].user = w => Cardinality(P) < MaxPackages
        /\ \A s, q \in PetAsk : ask[s].op = "upload" /\ ask[q].op = "upload" /\ ask[s].user = w /\ ask[q].user = w => s = q
    BY <2>1 DEF PetInv, PackagesFew
  <2>3. IsFiniteSet(P) /\ Cardinality(P) \in Nat /\ MaxPackages \in Nat
    BY <2>1, PackagesAre, PetsAssumption
  <2>4. CASE w = u
    <3>1. {q \in DOMAIN pkg' : pkg'[q].owner = w} = P \cup {p} /\ p \notin P
      BY <1>4, <1>6, <1>7, <2>1, <2>4 DEF Packages
    <3>2. Cardinality(P \cup {p}) = Cardinality(P) + 1
      BY <2>3, <3>1, FS_AddElement
    <3>3. Cardinality(P) < MaxPackages
      BY <1>1, <1>2, <1>3, <2>2, <2>4
    <3>4. \A s \in PetAsk : ~(ask'[s].op = "upload" /\ ask'[s].user = w)
      BY <1>1, <1>2, <1>3, <1>12, <2>2, <2>4
    <3>5. Cardinality(P) + 1 <= MaxPackages
      BY <2>3, <3>3
    <3> QED
      BY <3>1, <3>2, <3>4, <3>5
  <2>5. CASE w # u
    <3>1. {q \in DOMAIN pkg' : pkg'[q].owner = w} = P
      <4>1. \A q \in DOMAIN pkg' : pkg'[q].owner = w <=> q \in P
        BY <1>4, <1>6, <1>7, <2>1, <2>5 DEF Packages
      <4>2. P \subseteq DOMAIN pkg'
        BY <1>6, <2>1 DEF Packages
      <4> QED
        BY <4>1, <4>2
    <3> QED
      BY <1>12, <2>2, <3>1
  <2> QED
    BY <2>4, <2>5
<1> QED
  BY <1>9, <1>12, <1>13, <1>14, <1>15, <1>16 DEF PetInv

LEMMA DeletedKeeps ==
  ASSUME PetInv, NEW r \in PetAsk, PackageDeleted(r)
  PROVE  PetInv'
<1>1. PICK p : p = ask[r].pkg
  OBVIOUS
<1>2. ask[r].op = "delete" /\ Closed(r) /\ pkg' = Less(pkg, {p}) /\ UNCHANGED <<pet, born, sheet, open, plays, asks, crowd, torn>>
  BY <1>1 DEF PackageDeleted
<1>3. DOMAIN pkg' = DOMAIN pkg \ {p} /\ \A q \in DOMAIN pkg' : pkg'[q] = pkg[q]
  BY <1>2 DEF Less
<1>4. PetTypes'
  BY <1>2, <1>3 DEF PetInv, PetTypes
<1>5. \A s \in PetAsk : s # r /\ ask[s].op = "upload" => ask[s].pkg \notin DOMAIN pkg'
  BY <1>3 DEF PetInv, AsksFit
<1>6. \A s \in PetAsk : s # r /\ ask[s].op = "delete" => ask[s].pkg \in DOMAIN pkg'
  BY <1>1, <1>2, <1>3 DEF PetInv, AsksFit
<1>7. AsksFit' /\ AsksLess /\ ask'[r].op = "none" /\ \A s \in PetAsk : s # r => ask'[s] = ask[s]
  BY <1>2, <1>5, <1>6, ClosedFits
<1>8. SheetsKept'
  BY <1>1, <1>2, <1>3, <1>7 DEF PetInv, SheetsKept
<1>9. ActiveKept /\ SaidKept /\ ChatsKept /\ OwnersKept
  BY <1>2, <1>3 DEF ActiveKept, SaidKept, ChatsKept, OwnersKept
<1>10. OneActivePet' /\ PackagesFew' /\ BubblesFew' /\ ChatsFew'
  BY <1>2, <1>7, <1>9, ActiveKeeps, PackagesKeep, BubblesKeep, ChatsKeepFew
<1>11. StatesShown'
  BY <1>3 DEF PetInv, StatesShown
<1>12. PlaysNamed'
  BY <1>2 DEF PetInv, PlaysNamed
<1> QED
  BY <1>4, <1>7, <1>8, <1>10, <1>11, <1>12 DEF PetInv

LEMMA FailedKeeps ==
  ASSUME PetInv, NEW r \in PetAsk, Failed(r)
  PROVE  PetInv'
<1>1. Closed(r) /\ UNCHANGED <<pkg, pet, born, sheet, open, plays, asks, crowd>>
      /\ torn' = (IF ask[r].op = "delete" THEN torn \cup {ask[r].pkg} ELSE torn)
  BY DEF Failed
<1>2. PetTypes' /\ StatesShown' /\ PlaysNamed'
  BY <1>1 DEF PetInv, PetTypes, StatesShown, PlaysNamed
<1>3. \A s \in PetAsk : /\ s # r /\ ask[s].op = "upload" => ask[s].pkg \notin DOMAIN pkg'
                        /\ s # r /\ ask[s].op = "delete" => ask[s].pkg \in DOMAIN pkg'
  BY <1>1 DEF PetInv, AsksFit
<1>4. AsksFit' /\ AsksLess /\ ask'[r].op = "none" /\ \A s \in PetAsk : s # r => ask'[s] = ask[s]
  BY <1>1, <1>3, ClosedFits
<1>5. SheetsKept'
  BY <1>1, <1>4 DEF PetInv, SheetsKept
<1>6. ActiveKept /\ SaidKept /\ ChatsKept /\ OwnersKept
  BY <1>1 DEF ActiveKept, SaidKept, ChatsKept, OwnersKept
<1>7. OneActivePet' /\ PackagesFew' /\ BubblesFew' /\ ChatsFew'
  BY <1>1, <1>4, <1>6, ActiveKeeps, PackagesKeep, BubblesKeep, ChatsKeepFew
<1> QED
  BY <1>2, <1>4, <1>5, <1>7 DEF PetInv

(* A request that changes pets, and no package, ends.                          *)
LEMMA PetClosedKeeps ==
  ASSUME PetInv, NEW r \in PetAsk, Closed(r), UNCHANGED <<pkg, born, sheet, torn>>, crowd \subseteq crowd', ask[r].op # "delete",
         DOMAIN pet \subseteq DOMAIN pet',
         \A x \in DOMAIN pet' : x \in PetUser \X PetPkg /\ x[2] \in born /\ pet'[x] \in PetRec
  PROVE  /\ AsksFit' /\ AsksLess /\ SheetsKept' /\ PackagesFew' /\ StatesShown'
         /\ DOMAIN plays' = {"bubble", "tool"} => PetTypes'
         /\ ask'[r].op = "none" /\ \A s \in PetAsk : s # r => ask'[s] = ask[s]
<1>1. \A s \in PetAsk : /\ s # r /\ ask[s].op = "upload" => ask[s].pkg \notin DOMAIN pkg'
                        /\ s # r /\ ask[s].op = "delete" => ask[s].pkg \in DOMAIN pkg'
  BY DEF PetInv, AsksFit
<1>2. AsksFit' /\ AsksLess /\ ask'[r].op = "none" /\ \A s \in PetAsk : s # r => ask'[s] = ask[s]
  BY <1>1, ClosedFits
<1>3. SheetsKept'
  BY <1>2 DEF PetInv, SheetsKept
<1>4. OwnersKept
  BY DEF OwnersKept
<1>5. PackagesFew'
  BY <1>2, <1>4, PackagesKeep
<1>6. StatesShown' /\ (DOMAIN plays' = {"bubble", "tool"} => PetTypes')
  BY DEF PetInv, StatesShown, PetTypes
<1> QED
  BY <1>2, <1>3, <1>5, <1>6

LEMMA AdoptedKeeps ==
  ASSUME PetInv, NEW r \in PetAsk, Adopted(r)
  PROVE  PetInv'
<1>1. PICK a : a = ask[r]
  OBVIOUS
<1>2. a.op = "adopt" /\ Closed(r) /\ UNCHANGED <<pkg, born, sheet, open, plays, asks, crowd, torn>> /\ a.user \in PetUser /\ a.pkg \in PetPkg
  BY <1>1 DEF Adopted, PetInv, AsksFit, AskTyped
<1>3. PICK u \in PetUser, p \in PetPkg : u = a.user /\ p = a.pkg
  BY <1>2
<1>4. pet' = pet \/ (p \in born /\ pet' = Plus(pet, <<u, p>>, NewPet))
  BY <1>1, <1>3 DEF Adopted, Seen, PetInv, PetTypes
<1>5. /\ DOMAIN pet \subseteq DOMAIN pet' /\ ActiveKept /\ SaidKept /\ ChatsKept
      /\ \A x \in DOMAIN pet' : x \in PetUser \X PetPkg /\ x[2] \in born /\ pet'[x] \in PetRec
  <2>1. CASE pet' = pet
    BY <2>1 DEF ActiveKept, SaidKept, ChatsKept, PetInv, PetTypes
  <2>2. CASE p \in born /\ pet' = Plus(pet, <<u, p>>, NewPet)
    BY <2>2, PetMore
  <2> QED
    BY <1>4, <2>1, <2>2
<1>6. /\ AsksFit' /\ AsksLess /\ SheetsKept' /\ PackagesFew' /\ StatesShown'
      /\ DOMAIN plays' = {"bubble", "tool"} => PetTypes'
  BY <1>1, <1>2, <1>5, PetClosedKeeps
<1>7. PetTypes' /\ PlaysNamed'
  BY <1>2, <1>6 DEF PetInv, PetTypes, PlaysNamed
<1>8. OneActivePet' /\ BubblesFew' /\ ChatsFew'
  BY <1>2, <1>5, <1>6, ActiveKeeps, BubblesKeep, ChatsKeepFew
<1> QED
  BY <1>6, <1>7, <1>8 DEF PetInv

LEMMA ActivatedKeeps ==
  ASSUME PetInv, NEW r \in PetAsk, Activated(r)
  PROVE  PetInv'
<1>1. PICK a : a = ask[r]
  OBVIOUS
<1>2. PICK own : own = <<a.user, a.pkg>>
  OBVIOUS
<1>3. a.op = "activate" /\ Closed(r) /\ UNCHANGED <<pkg, born, sheet, open, plays, asks, crowd, torn>>
      /\ a.rows \subseteq DOMAIN pet /\ \A x \in a.rows : x[1] = a.user
  BY <1>1 DEF Activated, PetInv, AsksFit, AskTyped
<1>4. \/ pet' = pet
      \/ /\ own \in a.rows /\ \A x \in DOMAIN pet \ a.rows : x[1] = a.user => ~pet[x].active
         /\ pet' = [x \in DOMAIN pet |-> IF x \in a.rows THEN [pet[x] EXCEPT !.active = (x = own)] ELSE pet[x]]
  BY <1>1, <1>2 DEF Activated
<1>5. CASE pet' = pet
  <2>1. /\ AsksFit' /\ AsksLess /\ SheetsKept' /\ PackagesFew' /\ StatesShown'
        /\ DOMAIN plays' = {"bubble", "tool"} => PetTypes'
    BY <1>1, <1>3, <1>5, PetClosedKeeps DEF PetInv, PetTypes
  <2>2. ActiveKept /\ SaidKept /\ ChatsKept
    BY <1>5 DEF ActiveKept, SaidKept, ChatsKept
  <2>3. PetTypes' /\ PlaysNamed'
    BY <1>3, <2>1 DEF PetInv, PetTypes, PlaysNamed
  <2>4. OneActivePet' /\ BubblesFew' /\ ChatsFew'
    BY <1>3, <2>1, <2>2, ActiveKeeps, BubblesKeep, ChatsKeepFew
  <2> QED
    BY <2>1, <2>3, <2>4 DEF PetInv
<1>6. CASE /\ own \in a.rows /\ \A x \in DOMAIN pet \ a.rows : x[1] = a.user => ~pet[x].active
           /\ pet' = [x \in DOMAIN pet |-> IF x \in a.rows THEN [pet[x] EXCEPT !.active = (x = own)] ELSE pet[x]]
  <2>1. DOMAIN pet' = DOMAIN pet
    BY <1>6
  <2>2. ASSUME NEW x \in DOMAIN pet
        PROVE  /\ pet'[x] \in PetRec /\ pet'[x].said = pet[x].said /\ pet'[x].chats = pet[x].chats
               /\ x \in a.rows => (pet'[x].active <=> x = own)
               /\ x \notin a.rows => pet'[x] = pet[x]
    <3>1. PICK y \in PetRec : y = pet[x]
      BY DEF PetInv, PetTypes
    <3>2. PICK b \in BOOLEAN : b = (x = own)
      OBVIOUS
    <3>3. PICK z : z = [y EXCEPT !.active = b]
      OBVIOUS
    <3>4. z \in PetRec /\ z.said = y.said /\ z.chats = y.chats /\ z.active = b
      BY <3>3 DEF PetRec
    <3>5. pet'[x] = IF x \in a.rows THEN z ELSE y
      BY <1>6, <3>1, <3>2, <3>3
    <3> QED
      BY <3>1, <3>2, <3>4, <3>5
  <2>3. \A x \in DOMAIN pet' : x \in PetUser \X PetPkg /\ x[2] \in born /\ pet'[x] \in PetRec
    BY <2>1, <2>2 DEF PetInv, PetTypes
  <2>4. /\ AsksFit' /\ AsksLess /\ SheetsKept' /\ PackagesFew' /\ StatesShown'
        /\ DOMAIN plays' = {"bubble", "tool"} => PetTypes'
    BY <1>1, <1>3, <2>1, <2>3, PetClosedKeeps
  <2>5. SaidKept /\ ChatsKept
    BY <2>1, <2>2 DEF SaidKept, ChatsKept
  <2>6. PetTypes' /\ PlaysNamed'
    BY <1>3, <2>4 DEF PetInv, PetTypes, PlaysNamed
  <2>7. BubblesFew' /\ ChatsFew'
    BY <1>3, <2>4, <2>5, BubblesKeep, ChatsKeepFew
  <2>8. ASSUME NEW x \in DOMAIN pet, NEW y \in DOMAIN pet, x[1] = y[1], pet'[x].active, pet'[y].active PROVE x = y
    <3>1. CASE x[1] = a.user
      BY <1>6, <2>2, <2>8, <3>1
    <3>2. CASE x[1] # a.user
      BY <1>3, <2>2, <2>8, <3>2 DEF PetInv, OneActivePet
    <3> QED
      BY <3>1, <3>2
  <2>9. OneActivePet'
    BY <2>1, <2>8 DEF OneActivePet
  <2> QED
    BY <2>4, <2>6, <2>7, <2>9 DEF PetInv
<1> QED
  BY <1>4, <1>5, <1>6

(* What was shown counts, and the name it bears is that of the line it plays.   *)
LEMMA ToldKeeps ==
  ASSUME PetInv, NEW r \in PetAsk, NEW name, Told(r, name)
  PROVE  PetInv'
<1>1. PICK a : a = ask[r]
  OBVIOUS
<1>2. a.op = "bubble" /\ Closed(r) /\ UNCHANGED <<pkg, born, sheet, open, asks, crowd, torn>>
      /\ pet' = [x \in DOMAIN pet |-> IF x \in a.rows THEN [pet[x] EXCEPT !.said = @ + 1] ELSE pet[x]]
  BY <1>1 DEF Told
<1>3. a.rows \subseteq DOMAIN pet /\ \A x \in a.rows : x = <<a.user, a.pkg>>
  BY <1>1, <1>2 DEF PetInv, AsksFit, AskTyped
<1>4. PICK N : N = {line \in SheetRows : a.names[line] = name}
  OBVIOUS
<1>5. PICK k : k = CHOOSE line \in N : \A n \in N : n <= line
  OBVIOUS
<1>6. plays' = IF N = {} THEN plays ELSE [plays EXCEPT !["bubble"] = [name |-> name, names |-> a.names, row |-> k]]
  BY <1>1, <1>4, <1>5 DEF Told
<1>7. PlaysNamed' /\ DOMAIN plays' = {"bubble", "tool"}
  <2>1. CASE N = {}
    BY <1>6, <2>1 DEF PetInv, PetTypes, PlaysNamed
  <2>2. CASE N # {}
    <3>0. N \in SUBSET SheetRows
      BY <1>4
    <3>1. k \in N
      BY <1>5, <2>2, <3>0, FirstAndLast
    <3>2. PICK e : e = [name |-> name, names |-> a.names, row |-> k]
      OBVIOUS
    <3>3. e.row \in SheetRows /\ e.names[e.row] = e.name
      BY <1>4, <3>1, <3>2
    <3>4. plays' = [plays EXCEPT !["bubble"] = e]
      BY <1>6, <2>2, <3>2
    <3> QED
      BY <3>3, <3>4 DEF PetInv, PetTypes, PlaysNamed
  <2> QED
    BY <2>1, <2>2
<1>8. DOMAIN pet' = DOMAIN pet
  BY <1>2
<1>9. ASSUME NEW x \in DOMAIN pet
      PROVE  /\ pet'[x] \in PetRec /\ pet'[x].active = pet[x].active /\ pet'[x].chats = pet[x].chats
             /\ pet'[x].said = IF x \in a.rows THEN pet[x].said + 1 ELSE pet[x].said
  <2>1. PICK y \in PetRec : y = pet[x]
    BY DEF PetInv, PetTypes
  <2>2. PICK z : z = [y EXCEPT !.said = @ + 1]
    OBVIOUS
  <2>3. z \in PetRec /\ z.active = y.active /\ z.chats = y.chats /\ z.said = y.said + 1
    BY <2>2 DEF PetRec
  <2>4. pet'[x] = IF x \in a.rows THEN z ELSE y
    BY <1>2, <2>1, <2>2
  <2> QED
    BY <2>1, <2>3, <2>4
<1>10. \A x \in DOMAIN pet' : x \in PetUser \X PetPkg /\ x[2] \in born /\ pet'[x] \in PetRec
  BY <1>8, <1>9 DEF PetInv, PetTypes
<1>11. /\ AsksFit' /\ AsksLess /\ SheetsKept' /\ PackagesFew' /\ StatesShown'
       /\ DOMAIN plays' = {"bubble", "tool"} => PetTypes'
       /\ ask'[r].op = "none" /\ \A s \in PetAsk : s # r => ask'[s] = ask[s]
  BY <1>1, <1>2, <1>8, <1>10, PetClosedKeeps
<1>12. ActiveKept /\ ChatsKept
  BY <1>8, <1>9 DEF ActiveKept, ChatsKept
<1>13. OneActivePet' /\ ChatsFew'
  BY <1>2, <1>11, <1>12, ActiveKeeps, ChatsKeepFew
<1>14. BubblesFew'
  <2> SUFFICES ASSUME NEW u \in PetUser, NEW p \in PetPkg, <<"bubble", u, p>> \notin crowd
               PROVE  /\ <<u, p>> \in DOMAIN pet' => pet'[<<u, p>>].said <= BubbleLimit
                      /\ \A s \in PetAsk : ask'[s].op = "bubble" /\ <<u, p>> \in ask'[s].rows => pet'[<<u, p>>].said < BubbleLimit
                      /\ \A s, q \in PetAsk : /\ ask'[s].op = "bubble" /\ ask'[s].user = u /\ ask'[s].pkg = p
                                              /\ ask'[q].op = "bubble" /\ ask'[q].user = u /\ ask'[q].pkg = p
                                              => s = q
    BY <1>2 DEF BubblesFew
  <2>1. PICK x : x = <<u, p>>
    OBVIOUS
  <2>2. /\ x \in DOMAIN pet => pet[x].said <= BubbleLimit
        /\ \A s \in PetAsk : ask[s].op = "bubble" /\ x \in ask[s].rows => pet[x].said < BubbleLimit
        /\ \A s, q \in PetAsk : /\ ask[s].op = "bubble" /\ ask[s].user = u /\ ask[s].pkg = p
                                /\ ask[q].op = "bubble" /\ ask[q].user = u /\ ask[q].pkg = p
                                => s = q
    BY <2>1 DEF PetInv, BubblesFew
  <2>3. x \in DOMAIN pet' => pet'[x].said <= BubbleLimit
    <3> SUFFICES ASSUME x \in DOMAIN pet PROVE pet'[x].said <= BubbleLimit
      BY <1>8
    <3>1. pet[x].said \in Nat /\ BubbleLimit \in Nat
      BY SaidIs, PetsAssumption
    <3> QED
      BY <1>1, <1>2, <1>9, <2>2, <3>1
  <2>4. ASSUME NEW s \in PetAsk, ask'[s].op = "bubble", x \in ask'[s].rows PROVE pet'[x].said < BubbleLimit
    <3>1. s # r /\ ask[s].op = "bubble" /\ x \in ask[s].rows
      BY <1>11, <2>4
    <3>2. x \in DOMAIN pet /\ x = <<ask[s].user, ask[s].pkg>>
      BY <3>1 DEF PetInv, AsksFit, AskTyped
    <3>3. x \notin a.rows
      <4> SUFFICES ASSUME x \in a.rows PROVE FALSE
        OBVIOUS
      <4>1. x = <<a.user, a.pkg>>
        BY <1>3
      <4>2. ask[s].user = u /\ ask[s].pkg = p /\ ask[r].user = u /\ ask[r].pkg = p /\ ask[r].op = "bubble"
        BY <1>1, <1>2, <2>1, <3>2, <4>1
      <4> QED
        BY <2>2, <3>1, <4>2
    <3> QED
      BY <1>9, <2>2, <3>1, <3>2, <3>3
  <2>5. \A s \in PetAsk : ask'[s].op = "bubble" => ask[s].op = "bubble" /\ ask'[s].user = ask[s].user /\ ask'[s].pkg = ask[s].pkg
    BY <1>11
  <2> QED
    BY <2>1, <2>2, <2>3, <2>4, <2>5
<1> QED
  BY <1>7, <1>11, <1>13, <1>14 DEF PetInv

LEMMA ChattingKeeps ==
  ASSUME PetInv, NEW r \in PetAsk, Chatting(r)
  PROVE  PetInv'
<1>1. PICK a : a = ask[r]
  OBVIOUS
<1>2. a.op = "chat" /\ Closed(r) /\ UNCHANGED <<pkg, born, sheet, open, plays, asks, torn>>
      /\ pet' = [x \in DOMAIN pet |-> IF x \in a.rows THEN [pet[x] EXCEPT !.chats = @ + 1] ELSE pet[x]]
      /\ crowd' = (IF a.new THEN crowd \cup {<<"new", a.user, a.pkg>>} ELSE crowd)
  BY <1>1 DEF Chatting
<1>3. a.rows \subseteq DOMAIN pet /\ \A x \in a.rows : x = <<a.user, a.pkg>>
  BY <1>1, <1>2 DEF PetInv, AsksFit, AskTyped
<1>4. crowd \subseteq crowd'
  BY <1>2
<1>8. DOMAIN pet' = DOMAIN pet
  BY <1>2
<1>9. ASSUME NEW x \in DOMAIN pet
      PROVE  /\ pet'[x] \in PetRec /\ pet'[x].active = pet[x].active /\ pet'[x].said = pet[x].said
             /\ pet'[x].chats = IF x \in a.rows THEN pet[x].chats + 1 ELSE pet[x].chats
  <2>1. PICK y \in PetRec : y = pet[x]
    BY DEF PetInv, PetTypes
  <2>2. PICK z : z = [y EXCEPT !.chats = @ + 1]
    OBVIOUS
  <2>3. z \in PetRec /\ z.active = y.active /\ z.said = y.said /\ z.chats = y.chats + 1
    BY <2>2 DEF PetRec
  <2>4. pet'[x] = IF x \in a.rows THEN z ELSE y
    BY <1>2, <2>1, <2>2
  <2> QED
    BY <2>1, <2>3, <2>4
<1>10. \A x \in DOMAIN pet' : x \in PetUser \X PetPkg /\ x[2] \in born /\ pet'[x] \in PetRec
  BY <1>8, <1>9 DEF PetInv, PetTypes
<1>11. /\ AsksFit' /\ AsksLess /\ SheetsKept' /\ PackagesFew' /\ StatesShown'
       /\ DOMAIN plays' = {"bubble", "tool"} => PetTypes'
       /\ ask'[r].op = "none" /\ \A s \in PetAsk : s # r => ask'[s] = ask[s]
  BY <1>1, <1>2, <1>4, <1>8, <1>10, PetClosedKeeps
<1>12. ActiveKept /\ SaidKept
  BY <1>8, <1>9 DEF ActiveKept, SaidKept
<1>13. OneActivePet' /\ BubblesFew'
  BY <1>4, <1>11, <1>12, ActiveKeeps, BubblesKeep
<1>15. PetTypes' /\ PlaysNamed'
  BY <1>2, <1>11 DEF PetInv, PetTypes, PlaysNamed
<1>14. ChatsFew'
  <2> SUFFICES ASSUME NEW u \in PetUser, NEW p \in PetPkg, <<"chat", u, p>> \notin crowd', <<"new", u, p>> \notin crowd'
               PROVE  /\ <<u, p>> \in DOMAIN pet' => pet'[<<u, p>>].chats <= 1
                      /\ \A s \in PetAsk : ask'[s].op = "chat" /\ <<u, p>> \in ask'[s].rows => ask'[s].new \/ pet'[<<u, p>>].chats = 0
                      /\ \A s, q \in PetAsk : /\ ask'[s].op = "chat" /\ ask'[s].user = u /\ ask'[s].pkg = p
                                              /\ ask'[q].op = "chat" /\ ask'[q].user = u /\ ask'[q].pkg = p
                                              => s = q
    BY DEF ChatsFew
  <2>1. PICK x : x = <<u, p>>
    OBVIOUS
  <2>2. /\ x \in DOMAIN pet => pet[x].chats <= 1
        /\ \A s \in PetAsk : ask[s].op = "chat" /\ x \in ask[s].rows => ask[s].new \/ pet[x].chats = 0
        /\ \A s, q \in PetAsk : /\ ask[s].op = "chat" /\ ask[s].user = u /\ ask[s].pkg = p
                                /\ ask[q].op = "chat" /\ ask[q].user = u /\ ask[q].pkg = p
                                => s = q
    BY <1>4, <2>1 DEF PetInv, ChatsFew
(* A chat that was not asked for anew was begun because there was none.        *)
  <2>3. x \in a.rows => pet[x].chats = 0
    <3> SUFFICES ASSUME x \in a.rows PROVE pet[x].chats = 0
      OBVIOUS
    <3>1. ~a.new
      BY <1>2, <1>3, <2>1
    <3> QED
      BY <1>1, <1>2, <2>2, <3>1
  <2>4. x \in DOMAIN pet' => pet'[x].chats <= 1
    <3> SUFFICES ASSUME x \in DOMAIN pet PROVE pet'[x].chats <= 1
      BY <1>8
    <3> QED
      BY <1>9, <2>2, <2>3
  <2>5. ASSUME NEW s \in PetAsk, ask'[s].op = "chat", x \in ask'[s].rows, ~ask'[s].new PROVE pet'[x].chats = 0
    <3>1. s # r /\ ask[s].op = "chat" /\ x \in ask[s].rows /\ ~ask[s].new
      BY <1>11, <2>5
    <3>2. x \in DOMAIN pet /\ x = <<ask[s].user, ask[s].pkg>>
      BY <3>1 DEF PetInv, AsksFit, AskTyped
    <3>3. x \notin a.rows
      <4> SUFFICES ASSUME x \in a.rows PROVE FALSE
        OBVIOUS
      <4>1. x = <<a.user, a.pkg>>
        BY <1>3
      <4>2. ask[s].user = u /\ ask[s].pkg = p /\ ask[r].user = u /\ ask[r].pkg = p /\ ask[r].op = "chat"
        BY <1>1, <1>2, <2>1, <3>2, <4>1
      <4> QED
        BY <2>2, <3>1, <4>2
    <3> QED
      BY <1>9, <2>2, <3>1, <3>2, <3>3
  <2>6. \A s \in PetAsk : ask'[s].op = "chat" => ask[s].op = "chat" /\ ask'[s].user = ask[s].user /\ ask'[s].pkg = ask[s].pkg
    BY <1>11
  <2> QED
    BY <2>1, <2>2, <2>4, <2>5, <2>6
<1> QED
  BY <1>11, <1>13, <1>14, <1>15 DEF PetInv

-----------------------------------------------------------------------------
(* Requests of one step.                                                       *)

LEMMA PetActionKeeps ==
  ASSUME PetInv, NEW x, NEW name, PetAction(x, name)
  PROVE  PetInv'
<1>1. UNCHANGED <<pkg, pet, born, sheet, open, ask, asks, crowd, torn>>
  BY DEF PetAction
<1>2. PICK M : M = NamesOf(x)
  OBVIOUS
<1>3. PICK N : N = {line \in SheetRows : M[line] = name}
  OBVIOUS
<1>4. PICK k : k = CHOOSE line \in N : \A n \in N : line <= n
  OBVIOUS
<1>5. PICK e : e = [name |-> name, names |-> M, row |-> k]
  OBVIOUS
<1>6. N # {} /\ plays' = [plays EXCEPT !["tool"] = e]
  BY <1>2, <1>3, <1>4, <1>5 DEF PetAction
<1>7. N \in SUBSET SheetRows
  BY <1>3
<1>8. k \in N
  BY <1>4, <1>6, <1>7, FirstAndLast
<1>9. e.row \in SheetRows /\ e.names[e.row] = e.name
  BY <1>3, <1>5, <1>8
<1>10. PlaysNamed' /\ DOMAIN plays' = {"bubble", "tool"}
  BY <1>6, <1>9 DEF PetInv, PetTypes, PlaysNamed
<1>11. PetTypes' /\ AsksFit' /\ SheetsKept'
  BY <1>1, <1>10 DEF PetInv, PetTypes, AsksFit, SheetsKept
<1>12. OneActivePet' /\ PackagesFew' /\ BubblesFew' /\ ChatsFew'
  BY <1>1 DEF PetInv, OneActivePet, PackagesFew, BubblesFew, ChatsFew, Packages
<1>13. StatesShown'
  BY <1>1 DEF PetInv, StatesShown
<1> QED
  BY <1>10, <1>11, <1>12, <1>13 DEF PetInv

LEMMA SetPackageKeeps ==
  ASSUME PetInv, NEW p \in DOMAIN pkg, NEW line \in PkgRec, SetPackage(p, line), line.owner = pkg[p].owner,
         ~line.moved => \A n \in DOMAIN line.acts : line.acts[n].state \in {NoState, StateOf(line.map, n)}
  PROVE  PetInv'
<1>1. pkg' = [pkg EXCEPT ![p] = line] /\ UNCHANGED <<pet, ask, born, sheet, open, plays, crowd, torn>>
  BY DEF SetPackage, Once
<1>2. DOMAIN pkg' = DOMAIN pkg /\ pkg'[p] = line /\ \A q \in DOMAIN pkg : q # p => pkg'[q] = pkg[q]
  BY <1>1
<1>3. PetTypes' /\ AsksFit' /\ SheetsKept'
  BY <1>1, <1>2 DEF PetInv, PetTypes, AsksFit, SheetsKept
<1>4. OwnersKept /\ AsksLess
  BY <1>1, <1>2 DEF OwnersKept, AsksLess
<1>5. PackagesFew'
  BY <1>1, <1>4, PackagesKeep
<1>6. OneActivePet' /\ BubblesFew' /\ ChatsFew'
  BY <1>1 DEF PetInv, OneActivePet, BubblesFew, ChatsFew
<1>7. StatesShown'
  BY <1>2 DEF PetInv, StatesShown
<1>8. PlaysNamed'
  BY <1>1 DEF PetInv, PlaysNamed
<1> QED
  BY <1>3, <1>5, <1>6, <1>7, <1>8 DEF PetInv

LEMMA PackageSets ==
  ASSUME PetInv, NEW p \in PetPkg,
         \/ \E u \in PetUser, v \in Visibility : SetVisibility(u, p, v)
         \/ \E v \in Visibility : AdminSetVisibility(p, v)
         \/ \E down \in BOOLEAN : AdminTakedown(p, down)
         \/ \E u \in PetUser, a \in PetAgent \cup {NoPetAgent} : SetDefaultAgent(u, p, a)
         \/ \E u \in PetUser, m \in RowMaps : SetRowMapping(u, p, m)
         \/ \E u \in PetUser, f \in Namings : SetPackageActions(u, p, f)
  PROVE  PetInv'
<1>1. p \in DOMAIN pkg
  BY DEF SetVisibility, AdminSetVisibility, AdminTakedown, SetDefaultAgent, SetRowMapping, SetPackageActions, Rules
<1>2. PICK k \in PkgRec : k = pkg[p]
  BY <1>1 DEF PetInv, PetTypes
<1>3. ~k.moved => \A n \in DOMAIN k.acts : k.acts[n].state \in {NoState, StateOf(k.map, n)}
  BY <1>1, <1>2 DEF PetInv, StatesShown
<1>4. ASSUME NEW v \in Visibility, SetPackage(p, [pkg[p] EXCEPT !.vis = v]) PROVE PetInv'
  <2>1. PICK line : line = [k EXCEPT !.vis = v]
    OBVIOUS
  <2>2. line \in PkgRec /\ line.owner = k.owner /\ line.moved = k.moved /\ line.acts = k.acts /\ line.map = k.map
    BY <2>1 DEF PkgRec
  <2>3. SetPackage(p, line)
    BY <1>2, <1>4, <2>1
  <2> QED
    BY <1>1, <1>2, <1>3, <2>2, <2>3, SetPackageKeeps
<1>5. ASSUME NEW down \in BOOLEAN, SetPackage(p, [pkg[p] EXCEPT !.down = down]) PROVE PetInv'
  <2>1. PICK line : line = [k EXCEPT !.down = down]
    OBVIOUS
  <2>2. line \in PkgRec /\ line.owner = k.owner /\ line.moved = k.moved /\ line.acts = k.acts /\ line.map = k.map
    BY <2>1 DEF PkgRec
  <2>3. SetPackage(p, line)
    BY <1>2, <1>5, <2>1
  <2> QED
    BY <1>1, <1>2, <1>3, <2>2, <2>3, SetPackageKeeps
<1>6. ASSUME NEW a \in PetAgent \cup {NoPetAgent}, SetPackage(p, [pkg[p] EXCEPT !.deflt = a]) PROVE PetInv'
  <2>1. PICK line : line = [k EXCEPT !.deflt = a]
    OBVIOUS
  <2>2. line \in PkgRec /\ line.owner = k.owner /\ line.moved = k.moved /\ line.acts = k.acts /\ line.map = k.map
    BY <2>1 DEF PkgRec
  <2>3. SetPackage(p, line)
    BY <1>2, <1>6, <2>1
  <2> QED
    BY <1>1, <1>2, <1>3, <2>2, <2>3, SetPackageKeeps
<1>7. ASSUME NEW m \in RowMaps, SetPackage(p, [pkg[p] EXCEPT !.map = m, !.moved = TRUE]) PROVE PetInv'
  <2>1. PICK line : line = [k EXCEPT !.map = m, !.moved = TRUE]
    OBVIOUS
  <2>2. line \in PkgRec /\ line.owner = k.owner /\ line.moved
    BY <2>1, RowMapsAssumption DEF PkgRec
  <2>3. SetPackage(p, line)
    BY <1>2, <1>7, <2>1
  <2> QED
    BY <1>1, <1>2, <2>2, <2>3, SetPackageKeeps
<1>8. ASSUME NEW u \in PetUser, NEW f \in Namings, SetPackageActions(u, p, f) PROVE PetInv'
  <2>1. PICK c : c = [n \in DOMAIN f |-> [name |-> f[n], state |-> IF n \in DOMAIN k.acts THEN k.acts[n].state ELSE NoState]]
    OBVIOUS
  <2>2. f \in Partial(SheetRows, PetName) /\ k.acts \in Partial(SheetRows, ActRec)
    BY DEF Namings, PkgRec
  <2>3. DOMAIN f \subseteq SheetRows /\ \A n \in DOMAIN f : f[n] \in PetName
    BY <2>2, MapsAre
  <2>4. \A n \in DOMAIN k.acts : k.acts[n] \in ActRec
    BY <2>2, MapsAre
  <2>5. ASSUME NEW n \in DOMAIN f
        PROVE  c[n] \in ActRec /\ c[n].state = IF n \in DOMAIN k.acts THEN k.acts[n].state ELSE NoState
    <3>1. PICK s : s = IF n \in DOMAIN k.acts THEN k.acts[n].state ELSE NoState
      OBVIOUS
    <3>2. s \in RowStates \cup {NoState}
      BY <2>4, <3>1 DEF ActRec
    <3>3. c[n] = [name |-> f[n], state |-> s]
      BY <2>1, <3>1
    <3>4. f[n] \in RowNames
      BY <2>3 DEF RowNames
    <3> QED
      BY <3>1, <3>2, <3>3, <3>4 DEF ActRec
  <2>6. c \in [DOMAIN f -> ActRec]
    BY <2>1, <2>5
  <2>7. c \in Partial(SheetRows, ActRec) /\ DOMAIN c = DOMAIN f
    BY <2>3, <2>6, MapsAre
  <2>8. PICK line : line = [k EXCEPT !.acts = c]
    OBVIOUS
  <2>9. line \in PkgRec /\ line.owner = k.owner /\ line.moved = k.moved /\ line.acts = c /\ line.map = k.map
    BY <2>7, <2>8 DEF PkgRec
  <2>10. SetPackage(p, line)
    BY <1>2, <1>8, <2>1, <2>8 DEF SetPackageActions
  <2>11. ~line.moved => \A n \in DOMAIN line.acts : line.acts[n].state \in {NoState, StateOf(line.map, n)}
    BY <1>3, <2>5, <2>7, <2>9
  <2> QED
    BY <1>1, <1>2, <2>9, <2>10, <2>11, SetPackageKeeps
<1> QED
  BY <1>4, <1>5, <1>6, <1>7, <1>8 DEF SetVisibility, AdminSetVisibility, AdminTakedown, SetDefaultAgent, SetRowMapping

(* A step that changes pets, and neither packages nor what a pet has said.     *)
LEMMA PetStepKeeps ==
  ASSUME PetInv, UNCHANGED <<pkg, born, sheet, plays, crowd, torn>>, AsksFit', AsksLess,
         \A r \in PetAsk : ask[r].op = "delete" => ask'[r] = ask[r],
         DOMAIN pet' \subseteq DOMAIN pet,
         \A x \in DOMAIN pet' : /\ pet'[x] \in PetRec /\ pet'[x].said = pet[x].said /\ pet'[x].chats = pet[x].chats
                                /\ pet'[x].active => pet[x].active
  PROVE  PetInv'
<1>1. PetTypes'
  BY DEF PetInv, PetTypes
<1>2. ActiveKept /\ SaidKept /\ ChatsKept /\ OwnersKept
  BY DEF ActiveKept, SaidKept, ChatsKept, OwnersKept
<1>3. OneActivePet' /\ PackagesFew' /\ BubblesFew' /\ ChatsFew'
  BY <1>2, ActiveKeeps, PackagesKeep, BubblesKeep, ChatsKeepFew
<1>4. SheetsKept'
  BY DEF PetInv, SheetsKept
<1>5. StatesShown' /\ PlaysNamed'
  BY DEF PetInv, StatesShown, PlaysNamed
<1> QED
  BY <1>1, <1>3, <1>4, <1>5 DEF PetInv

LEMMA PetSets ==
  ASSUME PetInv, NEW u \in PetUser, NEW p \in PetPkg,
         \/ \E a \in PetAgent \cup {NoPetAgent} : SetAgent(u, p, a)
         \/ \E f \in Namings, g \in StateMaps : SetPetActions(u, p, f, g)
  PROVE  PetInv'
<1>1. PICK x : x = <<u, p>>
  OBVIOUS
<1>2. x \in DOMAIN pet
  BY <1>1 DEF SetAgent, SetPetActions
<1>3. PICK y \in PetRec : y = pet[x]
  BY <1>2 DEF PetInv, PetTypes
<1>4. ASSUME NEW line \in PetRec, SetPet(x, line), line.said = y.said, line.chats = y.chats, line.active = y.active PROVE PetInv'
  <2>1. pet' = [pet EXCEPT ![x] = line] /\ UNCHANGED <<pkg, ask, born, sheet, plays, crowd, torn>>
    BY <1>4 DEF SetPet, Once
  <2>2. DOMAIN pet' = DOMAIN pet /\ pet'[x] = line /\ \A z \in DOMAIN pet : z # x => pet'[z] = pet[z]
    BY <1>2, <2>1
  <2>3. AsksFit' /\ AsksLess
    BY <2>1, <2>2 DEF PetInv, AsksFit, AsksLess
  <2>4. \A z \in DOMAIN pet' : /\ pet'[z] \in PetRec /\ pet'[z].said = pet[z].said /\ pet'[z].chats = pet[z].chats
                               /\ pet'[z].active => pet[z].active
    BY <1>3, <1>4, <2>2 DEF PetInv, PetTypes
  <2> QED
    BY <2>1, <2>2, <2>3, <2>4, PetStepKeeps
<1>5. ASSUME NEW a \in PetAgent \cup {NoPetAgent}, SetAgent(u, p, a) PROVE PetInv'
  <2>1. PICK line : line = [y EXCEPT !.agent = a]
    OBVIOUS
  <2>2. line \in PetRec /\ line.said = y.said /\ line.chats = y.chats /\ line.active = y.active
    BY <2>1 DEF PetRec
  <2>3. SetPet(x, line)
    BY <1>1, <1>3, <1>5, <2>1 DEF SetAgent
  <2> QED
    BY <1>4, <2>2, <2>3
<1>6. ASSUME NEW f \in Namings, NEW g \in StateMaps, SetPetActions(u, p, f, g) PROVE PetInv'
  <2>1. PICK line : line = [y EXCEPT !.alias = f, !.states = g]
    OBVIOUS
  <2>3. line \in PetRec /\ line.said = y.said /\ line.chats = y.chats /\ line.active = y.active
    BY <2>1 DEF PetRec
  <2>4. SetPet(x, line)
    BY <1>1, <1>3, <1>6, <2>1 DEF SetPetActions
  <2> QED
    BY <1>4, <2>3, <2>4
<1> QED
  BY <1>5, <1>6

LEMMA DeactivateKeeps ==
  ASSUME PetInv, NEW u \in PetUser, DeactivateAll(u)
  PROVE  PetInv'
<1>1. /\ pet' = [x \in DOMAIN pet |-> IF x[1] # u THEN pet[x] ELSE [pet[x] EXCEPT !.active = FALSE]]
      /\ UNCHANGED <<pkg, ask, born, sheet, plays, crowd, torn>>
  BY DEF DeactivateAll, Once
<1>2. DOMAIN pet' = DOMAIN pet
  BY <1>1
<1>3. ASSUME NEW x \in DOMAIN pet
      PROVE  /\ pet'[x] \in PetRec /\ pet'[x].said = pet[x].said /\ pet'[x].chats = pet[x].chats
             /\ pet'[x].active => pet[x].active
  <2>1. PICK y \in PetRec : y = pet[x]
    BY DEF PetInv, PetTypes
  <2>2. PICK z : z = [y EXCEPT !.active = FALSE]
    OBVIOUS
  <2>3. z \in PetRec /\ z.said = y.said /\ z.chats = y.chats /\ ~z.active
    BY <2>2 DEF PetRec
  <2>4. pet'[x] = IF x[1] # u THEN y ELSE z
    BY <1>1, <2>1, <2>2
  <2> QED
    BY <2>1, <2>3, <2>4
<1>4. AsksFit' /\ AsksLess
  BY <1>1, <1>2 DEF PetInv, AsksFit, AsksLess
<1> QED
  BY <1>1, <1>2, <1>3, <1>4, PetStepKeeps

LEMMA RemovePetKeeps ==
  ASSUME PetInv, NEW u \in PetUser, NEW p \in PetPkg, RemovePet(u, p)
  PROVE  PetInv'
<1>1. PICK x : x = <<u, p>>
  OBVIOUS
<1>2. /\ pet' = Less(pet, {x}) /\ UNCHANGED <<pkg, born, sheet, plays, crowd, torn>>
      /\ ask' = [r \in PetAsk |-> IF ask[r].op \in {"activate", "bubble", "chat"}
                                  THEN [ask[r] EXCEPT !.rows = @ \ {x}] ELSE ask[r]]
  BY <1>1 DEF RemovePet, Once
<1>3. DOMAIN pet' = DOMAIN pet \ {x} /\ \A z \in DOMAIN pet' : pet'[z] = pet[z]
  BY <1>2 DEF Less
<1>4. ASSUME NEW r \in PetAsk
      PROVE  /\ ask'[r].op = ask[r].op
             /\ ask[r].op # "none" => ask'[r].user = ask[r].user /\ ask'[r].pkg = ask[r].pkg
             /\ ask[r].op \in {"activate", "bubble", "chat"} => ask'[r].rows = ask[r].rows \ {x}
             /\ ask[r].op = "chat" => ask'[r].new = ask[r].new
             /\ ask[r].op \notin {"activate", "bubble", "chat"} => ask'[r] = ask[r]
             /\ DOMAIN ask'[r] = DOMAIN ask[r]
  <2>1. PICK a : a = ask[r]
    OBVIOUS
  <2>2. AskTyped(a)
    BY <2>1 DEF PetInv, AsksFit
  <2>3. CASE a.op \in {"activate", "bubble", "chat"}
    <3>1. PICK b : b = [a EXCEPT !.rows = @ \ {x}]
      OBVIOUS
    <3>2. {"op", "user", "pkg", "rows"} \subseteq DOMAIN a /\ (a.op = "chat" => "new" \in DOMAIN a)
      BY <2>2, <2>3 DEF AskTyped
    <3>3. /\ b.op = a.op /\ b.user = a.user /\ b.pkg = a.pkg /\ b.rows = a.rows \ {x} /\ DOMAIN b = DOMAIN a
          /\ a.op = "chat" => b.new = a.new
      BY <3>1, <3>2
    <3>4. ask'[r] = b
      BY <1>2, <2>1, <2>3, <3>1
    <3> QED
      BY <2>1, <2>3, <3>3, <3>4
  <2>4. CASE a.op \notin {"activate", "bubble", "chat"}
    BY <1>2, <2>1, <2>4
  <2> QED
    BY <2>3, <2>4
<1>5. AsksLess
  BY <1>4 DEF AsksLess
<1>6. ASSUME NEW r \in PetAsk, NEW b, b = ask'[r] PROVE AskTyped(b)
  <2>1. PICK a : a = ask[r]
    OBVIOUS
  <2>2. AskTyped(a)
    BY <2>1 DEF PetInv, AsksFit
  <2>3. CASE a.op \in {"activate", "bubble", "chat"}
    <3>1. /\ b.op = a.op /\ b.user = a.user /\ b.pkg = a.pkg /\ b.rows \subseteq a.rows /\ DOMAIN b = DOMAIN a
      BY <1>4, <1>6, <2>1, <2>3
    <3> QED
      BY <2>2, <2>3, <3>1 DEF AskTyped
  <2>4. CASE a.op \notin {"activate", "bubble", "chat"}
    <3>1. b = a
      BY <1>4, <1>6, <2>1, <2>4
    <3> QED
      BY <2>2, <3>1
  <2> QED
    BY <2>3, <2>4
<1>7. AsksFit'
  <2>1. DOMAIN ask' = PetAsk
    BY <1>2
  <2>2. \A r \in PetAsk : ask'[r].op = "upload" => ask'[r].pkg \in born' \cap sheet' /\ ask'[r].pkg \notin DOMAIN pkg'
    BY <1>2, <1>4 DEF PetInv, AsksFit
  <2>3. \A r, s \in PetAsk : ask'[r].op = "upload" /\ ask'[s].op = "upload" /\ ask'[r].pkg = ask'[s].pkg => r = s
    BY <1>4 DEF PetInv, AsksFit
  <2>4. \A r \in PetAsk : ask'[r].op = "delete" => ask'[r].pkg \in DOMAIN pkg'
    BY <1>2, <1>4 DEF PetInv, AsksFit
  <2>5. \A r, s \in PetAsk : ask'[r].op = "delete" /\ ask'[s].op = "delete" /\ ask'[r].pkg = ask'[s].pkg => r = s
    BY <1>4 DEF PetInv, AsksFit
  <2>6. \A r \in PetAsk : ask'[r].op \in {"activate", "bubble", "chat"} => ask'[r].rows \subseteq DOMAIN pet'
    BY <1>3, <1>4 DEF PetInv, AsksFit
  <2> QED
    BY <1>6, <2>1, <2>2, <2>3, <2>4, <2>5, <2>6 DEF AsksFit
<1>8. \A r \in PetAsk : ask[r].op = "delete" => ask'[r] = ask[r]
  BY <1>4
<1>9. \A z \in DOMAIN pet' : /\ pet'[z] \in PetRec /\ pet'[z].said = pet[z].said /\ pet'[z].chats = pet[z].chats
                             /\ pet'[z].active => pet[z].active
  BY <1>3 DEF PetInv, PetTypes
<1> QED
  BY <1>2, <1>3, <1>5, <1>7, <1>8, <1>9, PetStepKeeps

LEMMA ShareKeeps ==
  ASSUME PetInv, NEW u, NEW a, Share(u, a)
  PROVE  PetInv'
<1>1. UNCHANGED <<pkg, pet, born, sheet, ask, plays, crowd, torn>>
  BY DEF Share
<1>2. PetTypes' /\ AsksFit' /\ SheetsKept'
  BY <1>1 DEF PetInv, PetTypes, AsksFit, SheetsKept
<1>3. OneActivePet' /\ PackagesFew' /\ BubblesFew' /\ ChatsFew'
  BY <1>1 DEF PetInv, OneActivePet, PackagesFew, BubblesFew, ChatsFew, Packages
<1>4. StatesShown' /\ PlaysNamed'
  BY <1>1 DEF PetInv, StatesShown, PlaysNamed
<1> QED
  BY <1>2, <1>3, <1>4 DEF PetInv

LEMMA PetSteps ==
  ASSUME PetInv, PetNext \/ NameNext
  PROVE  PetInv'
<1>1. ASSUME NEW r \in PetAsk, Finished(r) PROVE PetInv'
  BY <1>1, CreatedKeeps, DeletedKeeps, FailedKeeps, AdoptedKeeps, ActivatedKeeps, ChattingKeeps, ToldKeeps DEF Finished
<1>2. CASE PetNext
  BY <1>1, <1>2, BeginsKeep, PackageSets, PetSets, DeactivateKeeps, RemovePetKeeps, ShareKeeps DEF PetNext
<1>3. CASE NameNext
  BY <1>3, BeginsKeep, PackageSets, PetSets, PetActionKeeps, ToldKeeps DEF NameNext
<1> QED
  BY <1>2, <1>3

-----------------------------------------------------------------------------
(* The pets of the users: where they start.                                    *)

LEMMA NoPetsStart == PInit => PetInv
<1> SUFFICES ASSUME PInit PROVE PetInv
  OBVIOUS
<1>1. DOMAIN pkg = {} /\ DOMAIN pet = {} /\ born = {} /\ IsFiniteSet(born)
  BY FS_EmptySet DEF PInit
<1>2. \A r \in PetAsk : ask[r] = NoAsk /\ ask[r].op = "none"
  BY NoAskIs DEF PInit
<1>3. DOMAIN plays = {"bubble", "tool"} /\ \A by \in {"bubble", "tool"} : plays[by] = NotPlayed
  BY DEF PInit
<1>4. PetTypes /\ SheetsKept /\ OneActivePet /\ StatesShown /\ PlaysNamed
  BY <1>1, <1>3 DEF PetTypes, SheetsKept, OneActivePet, StatesShown, PlaysNamed
<1>5. DOMAIN ask = PetAsk /\ \A r \in PetAsk : \A a : a = ask[r] => AskTyped(a)
  BY <1>2, NoAskIs DEF PInit
<1>6. AsksFit
  BY <1>2, <1>5 DEF AsksFit
<1>7. \A u : \A S : S = Packages(u) => Cardinality(S) <= MaxPackages
  BY <1>1, FS_EmptySet, PetsAssumption DEF Packages
<1>8. PackagesFew
  BY <1>2, <1>7 DEF PackagesFew
<1>9. BubblesFew /\ ChatsFew
  BY <1>1, <1>2 DEF BubblesFew, ChatsFew
<1> QED
  BY <1>4, <1>6, <1>8, <1>9 DEF PetInv

LEMMA OwnPackageIs ==
  ASSUME NEW u \in PetUser, NEW v \in Visibility, NEW k, k = NewPackage(u, v, IdleOnly)
  PROVE  /\ k \in PkgRec /\ k.owner = u
         /\ \A line \in DOMAIN k.acts : \A m : m = k.map => k.acts[line].state \in {NoState, StateOf(m, line)}
<1>1. "idle" \in RowStates /\ 0 \in SheetRows
  BY PetsAssumption DEF RowStates, SheetRows
<1>2. IdleOnly \in [{"idle"} -> SheetRows] /\ DOMAIN IdleOnly = {"idle"} /\ {"idle"} \in SUBSET RowStates
  BY <1>1 DEF IdleOnly
<1>3. IdleOnly \in Partial(RowStates, SheetRows)
  BY <1>2, MapsAre
<1>4. IdleOnly \in Mappings
  BY <1>2, <1>3 DEF Mappings, StateMaps
<1>5. PICK m \in Mappings : m = IdleOnly
  BY <1>4
<1>6. /\ k \in PkgRec /\ k.owner = u /\ k.map = m
      /\ \A line \in DOMAIN k.acts : k.acts[line].state = StateOf(m, line)
  <2>1. k = NewPackage(u, v, m)
    BY <1>5
  <2> QED
    BY <2>1, NewPackageIs
<1> QED
  BY <1>6

LEMMA OwnPetStarts ==
  ASSUME NEW p \in PetPkg, NEW q \in PetPkg, p # q, NEW n \in {0, 1}, OwnPet(p, q, n)
  PROVE  PetInv
<1>1. n1 \in PetUser /\ f1 \in PetUser /\ f1 \in PetAdmin /\ n1 # f1 /\ n2 \in PetAgent /\ MaxPackages > 0
  BY OwnPetAssumption, PetsAssumption
<1>2. PICK k : k = NewPackage(n1, "private", IdleOnly)
  OBVIOUS
<1>3. PICK l : l = NewPackage(f1, "official", IdleOnly)
  OBVIOUS
<1>4. PICK y : y = [NewPet EXCEPT !.agent = n2, !.chats = n]
  OBVIOUS
<1>5. y \in PetRec /\ ~y.active /\ y.said = 0 /\ y.chats = n
  <2>1. PICK z : z = NewPet
    OBVIOUS
  <2>2. z \in PetRec /\ ~z.active /\ z.said = 0
    BY <2>1, NewPetIs
  <2>3. y = [z EXCEPT !.agent = n2, !.chats = n] /\ n \in Nat /\ n2 \in PetAgent
    BY <1>1, <1>4, <2>1
  <2> QED
    BY <2>2, <2>3 DEF PetRec
<1>6. /\ k \in PkgRec /\ k.owner = n1
      /\ \A line \in DOMAIN k.acts : \A m : m = k.map => k.acts[line].state \in {NoState, StateOf(m, line)}
  BY <1>1, <1>2, OwnPackageIs DEF Visibility
<1>7. /\ l \in PkgRec /\ l.owner = f1
      /\ \A line \in DOMAIN l.acts : \A m : m = l.map => l.acts[line].state \in {NoState, StateOf(m, line)}
  BY <1>1, <1>3, OwnPackageIs DEF Visibility
<1>8. pkg = [x \in {p, q} |-> IF x = p THEN k ELSE l] /\ pet = [x \in {<<n1, p>>} |-> y]
  BY <1>2, <1>3, <1>4 DEF OwnPet
<1>9. /\ DOMAIN pkg = {p, q} /\ pkg[p] = k /\ pkg[q] = l
      /\ DOMAIN pet = {<<n1, p>>} /\ pet[<<n1, p>>] = y
      /\ born = {p, q} /\ sheet = {p, q} /\ IsFiniteSet(born)
  <2>1. IsFiniteSet({p, q})
    <3>1. IsFiniteSet({p})
      BY FS_Singleton
    <3>2. IsFiniteSet({p} \cup {q})
      BY <3>1, FS_AddElement
    <3>3. {p} \cup {q} = {p, q}
      OBVIOUS
    <3> QED
      BY <3>2, <3>3
  <2>2. born = {p, q} /\ sheet = {p, q}
    BY DEF OwnPet
  <2> QED
    BY <1>8, <2>1, <2>2
<1>10. \A r \in PetAsk : ask[r] = NoAsk /\ ask[r].op = "none"
  BY NoAskIs DEF OwnPet
<1>11. DOMAIN plays = {"bubble", "tool"} /\ \A by \in {"bubble", "tool"} : plays[by] = NotPlayed
  BY DEF OwnPet
<1>12. PetTypes
  BY <1>1, <1>5, <1>6, <1>7, <1>9, <1>11 DEF PetTypes
<1>13. SheetsKept /\ OneActivePet /\ PlaysNamed
  BY <1>5, <1>9, <1>11 DEF SheetsKept, OneActivePet, PlaysNamed
<1>14. StatesShown
  BY <1>6, <1>7, <1>9 DEF StatesShown
<1>15. DOMAIN ask = PetAsk /\ \A r \in PetAsk : \A a : a = ask[r] => AskTyped(a)
  BY <1>10, NoAskIs DEF OwnPet
<1>16. AsksFit
  BY <1>10, <1>15 DEF AsksFit
<1>17. \A u \in PetUser \ PetAdmin : \A S : S = Packages(u) => Cardinality(S) <= MaxPackages
  <2> SUFFICES ASSUME NEW u \in PetUser \ PetAdmin, NEW S, S = Packages(u) PROVE Cardinality(S) <= MaxPackages
    OBVIOUS
  <2>1. S \subseteq {p}
    BY <1>1, <1>7, <1>9 DEF Packages
  <2>2. Cardinality(S) \in Nat /\ Cardinality(S) <= 1
    BY <2>1, AtMostOneIs
  <2> QED
    BY <1>1, <2>2, PetsAssumption
<1>18. PackagesFew
  BY <1>10, <1>17 DEF PackagesFew
<1>19. BubblesFew
  BY <1>5, <1>9, <1>10, PetsAssumption DEF BubblesFew
<1>20. ChatsFew
  BY <1>5, <1>9, <1>10 DEF ChatsFew
<1> QED
  BY <1>12, <1>13, <1>14, <1>16, <1>18, <1>19, <1>20 DEF PetInv

-----------------------------------------------------------------------------
(* Each of them on its own.                                                    *)

(* However the edits of agents overlap, a published agent keeps an active       *)
(* version; the hierarchy has no cycle and no relation of a deleted agent, an   *)
(* agent has all tools only of servers that it is bound to, and a run gets the  *)
(* last version that was published, unless two edits of the kind that matters   *)
(* for it overlapped (agents.py, agent_api.py).                                 *)
THEOREM AgentsKeep == ASpec => []CatalogHolds
<1>1. AInit => AgentInv
  BY AgentStarts
<1>2. AgentInv /\ [ANext]_avars => AgentInv'
  BY AgentRests, AgentSteps
<1>3. AgentInv => CatalogHolds
  BY AgentMeans
<1> QED
  BY <1>1, <1>2, <1>3, PTL DEF ASpec

(* As long as no two requests overlap: a tenant has at most one default model,  *)
(* creations never get stuck on two, and what is resolved for a run is one      *)
(* model with its provider (admin_models.py, chat.py resolve_model).            *)
THEOREM ModelsKeepDefault == LSpec => []ModelsHold
<1>1. LInit => ModelInv
  BY ModelStarts
<1>2. ModelInv /\ [LNext]_lvars => ModelInv'
  BY ModelRests, ModelSteps
<1>3. ModelInv => ModelsHold
  BY ModelMeans
<1> QED
  BY <1>1, <1>2, <1>3, PTL DEF LSpec

(* Whatever requests overlap and whenever the server restarts: an adapter that  *)
(* is up is the registered one, one that drains has a request to end it, and a  *)
(* callback meets none that was stopped; requests in turn leave what they say   *)
(* (channels/connection_manager.py, interface/routes/channels.py).              *)
THEOREM ConnectionsAreOwned == DSpec => []AdminHolds
<1>1. DInit => AdminInv
  BY AdminStarts
<1>2. AdminInv /\ [DNext]_dvars => AdminInv'
  BY AdminRests, AdminSteps
<1>3. AdminInv => AdminHolds
  BY AdminMeans
<1> QED
  BY <1>1, <1>2, <1>3, PTL DEF DSpec

(* A code binds one user once and in its time, an identity that asks in one     *)
(* chat at a time has one code that works, and a chat leads to sessions and     *)
(* files of users that its identity is bound to, whatever codes and sessions    *)
(* come between (channels/binding.py, pipeline.py).                             *)
THEOREM IdentitiesAreBound == BSpec => []BindingsHold
<1>1. BInit => BindInv
  BY BindStarts
<1>2. BindInv /\ [BNext]_bvars => BindInv'
  BY BindRests, BindSteps
<1>3. BindInv => BindingsHold
  BY BindMeans
<1> QED
  BY <1>1, <1>2, <1>3, PTL DEF BSpec

(* Whatever requests about pets overlap or fail: a user has one active pet, a   *)
(* package has its objects unless its deletion began, the limits are exceeded   *)
(* only where two requests overlapped, and what is played is what was named     *)
(* (pets/service.py, smart.py).                                                 *)
THEOREM PetsKeep == PetsSpec => []PetsHold
<1>1. PInit => PetInv
  BY NoPetsStart
<1>2. PetInv /\ [PetNext \/ NameNext]_pvars => PetInv'
  BY PetRests, PetSteps
<1>3. PetInv => PetsHold
  BY PetMeans
<1> QED
  BY <1>1, <1>2, <1>3, PTL DEF PetsSpec

-----------------------------------------------------------------------------
(* All that the requests of a tenant administer.                               *)

CatalogsInv == AgentInv /\ ModelInv /\ AdminInv /\ BindInv /\ PetInv

LEMMA CatalogsStart == Init => CatalogsInv
<1> SUFFICES ASSUME Init PROVE CatalogsInv
  OBVIOUS
<1>1. AdminInv /\ BindInv
  BY AdminStarts, BindStarts DEF Init
<1>2. NoAgents => AInit
  <2>1. \A a \in Agent : NewRow = [NewRow EXCEPT !.is = IF a \in {} THEN "here" ELSE "new"]
    BY DEF NewRow
  <2>2. agent = [a \in Agent |-> NewRow] => agent = [a \in Agent |-> [NewRow EXCEPT !.is = IF a \in {} THEN "here" ELSE "new"]]
    BY <2>1
  <2> QED
    BY <2>2 DEF NoAgents, AInit
<1>3. NoModels => LInit
  BY DEF NoModels, LInit
<1>4. AgentInv /\ ModelInv
  BY <1>2, <1>3, AgentStarts, ModelStarts DEF Init
<1>5. PetInv
  <2>1. CASE PInit
    BY <2>1, NoPetsStart
  <2>2. ASSUME NEW p \in PetPkg, NEW q \in PetPkg, p # q, OwnPet(p, q, IF part = "names" THEN 1 ELSE 0) PROVE PetInv
    BY <2>2, OwnPetStarts
  <2> QED
    BY <2>1, <2>2 DEF Init
<1> QED
  BY <1>1, <1>4, <1>5 DEF CatalogsInv

LEMMA CatalogsStep ==
  ASSUME CatalogsInv, [Next]_<<part, others, pvars>>
  PROVE  CatalogsInv'
<1> USE DEF CatalogsInv
<1>1. ASSUME UNCHANGED avars \/ ANext PROVE AgentInv'
  BY <1>1, AgentRests, AgentSteps
<1>2. ASSUME UNCHANGED lvars \/ LNext PROVE ModelInv'
  BY <1>2, ModelRests, ModelSteps
<1>3. ASSUME UNCHANGED dvars \/ DNext PROVE AdminInv'
  BY <1>3, AdminRests, AdminSteps
<1>4. ASSUME UNCHANGED bvars \/ BNext PROVE BindInv'
  BY <1>4, BindRests, BindSteps
<1>5. ASSUME UNCHANGED pvars \/ PetNext \/ NameNext PROVE PetInv'
  BY <1>5, PetRests, PetSteps
<1>6. /\ UNCHANGED avars \/ ANext
      /\ UNCHANGED lvars \/ LNext
      /\ UNCHANGED dvars \/ DNext
      /\ UNCHANGED bvars \/ BNext
      /\ UNCHANGED pvars \/ PetNext \/ NameNext
  BY DEF Next, others, agents, channel
<1> QED
  BY <1>1, <1>2, <1>3, <1>4, <1>5, <1>6

(* However the requests of a tenant overlap: the hierarchy of the agents stays  *)
(* a tree, and their servers and versions as far as no two edits overlap; the   *)
(* models have one default; a channel has the connection its requests leave, an *)
(* identity the user whose code it gave; and a user has one active pet and the  *)
(* packages he may have.                                                        *)
THEOREM CatalogsKeep == Spec => []CatalogsHold
<1>1. Spec => []CatalogsInv
  BY CatalogsStart, CatalogsStep, PTL DEF Spec
<1>2. CatalogsInv => CatalogsHold
  BY AgentMeans, ModelMeans, AdminMeans, BindMeans, PetMeans DEF CatalogsInv, CatalogsHold
<1> QED
  BY <1>1, <1>2, PTL
=============================================================================
