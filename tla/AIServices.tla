----------------------------- MODULE AIServices -----------------------------
(* Shims whose resources get their names from counters. Each section is one  *)
(* shim with a next-state relation of its own; the sections share no state.  *)
EXTENDS ShimState

CONSTANTS
    MaxProcessors,
    MaxOperations,
    MaxSeq,   \* MaxSeq bounds the counter
    MaxAgents,
    maxIndexes,
    maxModels,
    maxStoredOperations,
    MaxTemplates,   \* bound on the counter
    TemplateIds   \* the templateIds of the requests that name their template: the n of tmpl-<n>, and 0 for every other id

-----------------------------------------------------------------------------
(* pkg/shims/documentai: processors and delete operations, numbered by one   *)
(* counter that no failure takes back.                                       *)

documentai_seq == <<"next", None, "seq">>
DocumentAIIssued(doc) == IF documentai_seq \in DOMAIN doc THEN doc[documentai_seq] ELSE 0
DocumentAINumbered(doc) == Put(doc, documentai_seq, DocumentAIIssued(mem) + 1)

createProcessor(h) ==
    LET n == <<"processor", None, DocumentAIIssued(mem) + 1>>
    IN  /\ DocumentAIIssued(mem) < MaxSeq /\ Cardinality(Of("processor", mem)) < MaxProcessors
        /\ Commit(h, DocumentAINumbered(Put(mem, n, "ENABLED")), {n})
deleteProcessor(h) ==
    \E n \in Of("processor", mem) :
        LET o == <<"operation", None, DocumentAIIssued(mem) + 1>>
        IN  /\ DocumentAIIssued(mem) < MaxSeq /\ Cardinality(Of("operation", mem)) < MaxOperations
            /\ Commit(h, DocumentAINumbered(Put(Drop(mem, {n}), o, n)), {n, o})

rehydrate == StartWith(disk, "unread")

documentai_persist(h) == SaveOk(h) \/ SaveFails(h)

DocumentAINext ==
    \/ \E h \in Handlers : createProcessor(h) \/ deleteProcessor(h)
    \/ \E h \in Handlers : documentai_persist(h) \/ Rollback(h)
    \/ rehydrate

validateDocumentAIMetadata(doc) ==
    /\ Cardinality(Of("processor", doc)) <= MaxProcessors
    /\ Cardinality(Of("operation", doc)) <= MaxOperations
    /\ \A n \in Of("processor", doc) : n[3] <= DocumentAIIssued(doc)

-----------------------------------------------------------------------------
(* pkg/shims/dialogflowcx: agents, numbered by a counter.                    *)

dialogflowcx_seq == <<"next", None, "seq">>
DialogflowCXIssued == IF dialogflowcx_seq \in Live THEN mem[dialogflowcx_seq] ELSE 0

createAgent(h) ==
    LET n == <<"agent", None, DialogflowCXIssued + 1>>
    IN  /\ DialogflowCXIssued < MaxSeq /\ Cardinality(Of("agent", mem)) < MaxAgents
        /\ \E b \in Bodies : Commit(h, Put(Put(mem, n, b), dialogflowcx_seq, DialogflowCXIssued + 1), {n})
deleteAgent(h) == \E n \in Of("agent", mem) : Delete(h, n)

DialogflowCXNewAPIWithStore == StartWith(disk, "unread")

dialogflowcx_persist(h) == SaveOk(h) \/ SaveFails(h)

DialogflowCXNext ==
    \/ \E h \in Handlers : createAgent(h) \/ deleteAgent(h)
    \/ \E h \in Handlers : dialogflowcx_persist(h) \/ Rollback(h)
    \/ DialogflowCXNewAPIWithStore

dialogflowcx_validateMetadata(doc) == Cardinality(Of("agent", doc)) <= MaxAgents

(* A number is given once: an agent that exists is never replaced by the     *)
(* next one, also when numbers were given by a process that died unsaved.    *)
NoAgentReplaced ==
    \A n \in Of("agent", disk) \cap Of("agent", disk') : disk[n] = disk'[n]

-----------------------------------------------------------------------------
(* pkg/shims/aiplatform: vector indexes, uploaded models and the operations  *)
(* that made them, all numbered by one counter that no failure takes back.   *)

aiplatform_seq == <<"next", None, "seq">>
AIPlatformIssued(doc) == IF aiplatform_seq \in DOMAIN doc THEN doc[aiplatform_seq] ELSE 0
AIPlatformOperations(doc) == Of("operation", doc)
newOperationLocked(doc, k, target) == Put(Put(doc, <<"operation", None, k>>, target), aiplatform_seq, k)

create(h, kind, limit) ==
    LET k == AIPlatformIssued(mem) + 1
        n == <<kind, None, k>>
    IN  /\ k < MaxSeq
        /\ Cardinality(Of(kind, mem)) < limit /\ Cardinality(AIPlatformOperations(mem)) < maxStoredOperations
        /\ \E b \in Bodies :
              Commit(h, newOperationLocked(Put(mem, n, b), k + 1, n), {n, <<"operation", None, k + 1>>})
createIndex(h) == create(h, "index", maxIndexes)
uploadModel(h) == create(h, "model", maxModels)
deleteResource(h) ==
    \E n \in Of("index", mem) \union Of("model", mem) :
        LET k == AIPlatformIssued(mem) + 1
        IN  /\ k <= MaxSeq /\ Cardinality(AIPlatformOperations(mem)) < maxStoredOperations
            /\ Commit(h, newOperationLocked(Drop(mem, {n}), k, n), {n, <<"operation", None, k>>})

AIPlatformNewAPIWithStore == StartWith(disk, "unread")

aiplatform_persist(h) == SaveOk(h) \/ SaveFails(h)

AIPlatformNext ==
    \/ \E h \in Handlers : createIndex(h) \/ uploadModel(h) \/ deleteResource(h)
    \/ \E h \in Handlers : aiplatform_persist(h) \/ Rollback(h)
    \/ AIPlatformNewAPIWithStore

aiplatform_validateMetadata(doc) ==
    /\ Cardinality(Of("index", doc)) <= maxIndexes
    /\ Cardinality(Of("model", doc)) <= maxModels
    /\ Cardinality(AIPlatformOperations(doc)) <= maxStoredOperations

(* A number is given once: a name that was saved never comes back for        *)
(* another resource, after a refused request and a restart either.           *)
NamesNotReused ==
    \A n \in Resources(disk') \ Resources(disk) : n[3] > AIPlatformIssued(disk) \/ degraded = "torn"

-----------------------------------------------------------------------------
(* pkg/shims/dlp: inspection templates.  A request names its template or     *)
(* leaves it to the counter, which names it tmpl-<counter>; here the names   *)
(* of that form are the numbers.                                             *)

counter == <<"next", None, "template">>
Counted(doc) == IF counter \in DOMAIN doc THEN doc[counter] ELSE 0

(* The counter moves even when the name is taken, and stays when the save    *)
(* fails.  A templateId is taken as it is, whatever the counter says.        *)
createTemplate(h) ==
    \E b \in Bodies, k \in {Counted(mem) + 1} \union TemplateIds :
        LET n == <<"template", None, k>>
            counted == Put(mem, counter, Counted(mem) + 1)
        IN  /\ Counted(mem) < MaxTemplates
            /\ IF n \in Live THEN Handle(h, counted, {}, <<>>)
               ELSE Commit(h, Put(counted, n, b), {n})
(* A save that fails leaves the patched template in memory.                  *)
patchTemplate(h) ==
    \E n \in Of("template", mem), b \in Bodies : Handle(h, Put(mem, n, b), {n}, <<Save(Keep)>>)
deleteTemplate(h) == \E n \in Of("template", mem) : Delete(h, n)

loadState == StartWith(disk, "unread")

persistState(h) == SaveOk(h) \/ SaveFails(h)

DLPNext ==
    \/ \E h \in Handlers : createTemplate(h) \/ patchTemplate(h) \/ deleteTemplate(h)
    \/ \E h \in Handlers : persistState(h) \/ Rollback(h)
    \/ loadState

validateDLPMetadata(doc) == \A n \in Of("template", doc) : n[3] <= Counted(doc)

(* An import refuses the entry only for a template that a request has named: *)
(* a name the counter gave is never ahead of the counter saved with it.      *)
Chosen(doc) == {n \in Of("template", doc) : n[3] \in TemplateIds}
OnlyChosenCollide(doc) == validateDLPMetadata(Drop(doc, Chosen(doc)))
=============================================================================
