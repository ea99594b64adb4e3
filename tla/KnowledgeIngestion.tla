------------------------- MODULE KnowledgeIngestion -------------------------
(***************************************************************************)
(* Knowledge documents from upload to READY: the outbox and the ingestion   *)
(* lease of src/mybot/repositories/knowledge.py, the dispatcher and worker  *)
(* of src/mybot/services/knowledge.py and KnowledgeIngestor of              *)
(* src/mybot/engine/knowledge.py, over the knowledge stream (which has no   *)
(* dedupe key).                                                             *)
(*                                                                          *)
(* A payload is a task <<document, generation>>.  A repository method is    *)
(* one transaction, hence one step.  Extraction, chunking and embedding     *)
(* only compute: they are the time between claim and completion.  Chunks    *)
(* are represented by the generation they were made from.                   *)
(***************************************************************************)
EXTENDS StreamConsumer

CONSTANTS
  Document,       \* document ids (UUIDs, never used again after a delete)
  ContentOf,      \* content hash and scope of each document: unique together
  Dispatcher,     \* processes that flush the outbox: workers and the API
  NoTask,         \* a dispatcher with nothing published but not yet marked
  MaxGeneration,  \* bound: generations of a document
  MaxStalls       \* bound: leases that expire under a working worker

ASSUME TaskAssumption ==
  /\ MaxGeneration \in Nat \ {0}
  /\ Envelope = Document \X (1..MaxGeneration)
  /\ Malformed = {} /\ Deduped = FALSE
  /\ NoTask \notin Envelope
ASSUME StallAssumption == MaxStalls \in Nat

VARIABLES
  status,      \* kb_document.status, or "absent" before and "gone" after its life
  generation,  \* kb_document.generation
  chunks,      \* the generation whose chunks kb_chunk holds, 0 for none
  unpublished, \* kb_ingest_outbox rows with published_at NULL (a published row
               \* and no row at all differ in nothing that is read)
  expired,     \* PROCESSING documents whose updated_at is older than the lease
  todo,        \* the rows each dispatcher has read and not finished with
  sending,     \* the task each dispatcher has published and not marked
  step,        \* "idle", "claim", "look" or "work", for each worker
  stalls,      \* leases that expired under a working worker so far
  misread      \* history: tasks a worker gave up as terminal although the
               \* document waits for them

documentVars == <<status, generation, chunks, expired>>
outboxVars == <<unpublished, todo, sending>>
ingestVars == <<documentVars, outboxVars, step, stalls, misread>>
allVars == <<vars, ingestVars>>

Status == {"absent", "QUEUED", "PROCESSING", "READY", "FAILED", "gone"}
Present(d) == status[d] \notin {"absent", "gone"}
Task(c) == log[cur[c]]
Doc(c) == Task(c)[1]

\* WHERE id = :id AND generation = :generation
Current(c) == Present(Doc(c)) /\ generation[Doc(c)] = Task(c)[2]

IngestTypeOK ==
  /\ TypeOK
  /\ status \in [Document -> Status]
  /\ generation \in [Document -> 0..MaxGeneration]
  /\ chunks \in [Document -> 0..MaxGeneration]
  /\ expired \subseteq {d \in Document : status[d] = "PROCESSING"}
  /\ unpublished \subseteq {t \in Envelope : Present(t[1])}
  /\ todo \in [Dispatcher -> SUBSET Envelope]
  /\ sending \in [Dispatcher -> Envelope \cup {NoTask}]
  /\ step \in [Consumer -> {"idle", "claim", "look", "work"}]
  /\ stalls \in 0..MaxStalls
  /\ misread \subseteq Envelope
  /\ \A c \in Consumer : step[c] = "idle" <=> pc[c] # "handler"

IngestInit ==
  /\ Init
  /\ status = [d \in Document |-> "absent"]
  /\ generation = [d \in Document |-> 0]
  /\ chunks = [d \in Document |-> 0]
  /\ unpublished = {} /\ expired = {} /\ stalls = 0 /\ misread = {}
  /\ todo = [p \in Dispatcher |-> {}]
  /\ sending = [p \in Dispatcher |-> NoTask]
  /\ step = [c \in Consumer |-> "idle"]

-----------------------------------------------------------------------------
(* The operator's requests.  The flush that ends an upload or a reingest is *)
(* a run of some dispatcher.                                                *)

\* create_document of new content: the row and its outbox row, one transaction.
Upload(d) ==
  /\ status[d] = "absent"
  /\ \A e \in Document : Present(e) => ContentOf[e] # ContentOf[d]
  /\ status' = [status EXCEPT ![d] = "QUEUED"]
  /\ generation' = [generation EXCEPT ![d] = 1]
  /\ unpublished' = unpublished \cup {<<d, 1>>}
  /\ UNCHANGED <<vars, chunks, expired, todo, sending, step, stalls, misread>>

\* create_document of content that is there already: only a FAILED document's
\* outbox row is reset; its status stays FAILED.
UploadAgain(d) ==
  /\ status[d] = "FAILED"
  /\ unpublished' = unpublished \cup {<<d, generation[d]>>}
  /\ UNCHANGED <<vars, documentVars, todo, sending, step, stalls, misread>>

\* requeue_document: the next generation, whatever the status is.
Requeue(d) ==
  /\ Present(d) /\ generation[d] < MaxGeneration
  /\ status' = [status EXCEPT ![d] = "QUEUED"]
  /\ generation' = [generation EXCEPT ![d] = @ + 1]
  /\ expired' = expired \ {d}
  /\ unpublished' = unpublished \cup {<<d, generation[d] + 1>>}
  /\ UNCHANGED <<vars, chunks, todo, sending, step, stalls, misread>>

\* delete_document: the foreign keys cascade to chunks and outbox rows.
Delete(d) ==
  /\ Present(d)
  /\ status' = [status EXCEPT ![d] = "gone"]
  /\ chunks' = [chunks EXCEPT ![d] = 0]
  /\ expired' = expired \ {d}
  /\ unpublished' = {t \in unpublished : t[1] # d}
  /\ UNCHANGED <<vars, generation, todo, sending, step, stalls, misread>>

-----------------------------------------------------------------------------
(* flush_once and _flush_knowledge_outbox.                                  *)

\* Mutant: the rows are marked when they are read.
FlushMarks(p) ==
  /\ todo[p] = {} /\ unpublished # {}
  /\ todo' = [todo EXCEPT ![p] = unpublished]
  /\ unpublished' = {}
  /\ UNCHANGED <<vars, documentVars, sending, step, stalls, misread>>

\* pending_ingest_tasks: a worker asks for all rows, the API for a document's.
Flush(p) ==
  /\ todo[p] = {}
  /\ \E S \in {unpublished} \cup {{t \in unpublished : t[1] = d} : d \in Document} :
       S # {} /\ todo' = [todo EXCEPT ![p] = S]
  /\ UNCHANGED <<vars, documentVars, unpublished, sending, step, stalls, misread>>

PublishTask(p) ==
  /\ sending[p] = NoTask
  /\ \E t \in todo[p] : Publish(t) /\ sending' = [sending EXCEPT ![p] = t]
  /\ UNCHANGED <<documentVars, unpublished, todo, step, stalls, misread>>

\* publish raises; mark_ingest_task_failed counts, the row stays unpublished.
PublishRaises(p) ==
  /\ sending[p] = NoTask
  /\ \E t \in todo[p] : todo' = [todo EXCEPT ![p] = @ \ {t}]
  /\ UNCHANGED <<vars, documentVars, unpublished, sending, step, stalls, misread>>

MarkPublished(p) ==
  /\ sending[p] # NoTask
  /\ unpublished' = unpublished \ {sending[p]}
  /\ todo' = [todo EXCEPT ![p] = @ \ {sending[p]}]
  /\ sending' = [sending EXCEPT ![p] = NoTask]
  /\ UNCHANGED <<vars, documentVars, step, stalls, misread>>

\* The process dies, or the database call raises.
FlushFails(p) ==
  /\ todo[p] # {}
  /\ todo' = [todo EXCEPT ![p] = {}]
  /\ sending' = [sending EXCEPT ![p] = NoTask]
  /\ UNCHANGED <<vars, documentVars, unpublished, step, stalls, misread>>

-----------------------------------------------------------------------------
(* handle_payload and KnowledgeIngestor.ingest.                             *)

Dispatch(c) ==
  /\ CheckOnce(c)
  /\ step' = [step EXCEPT ![c] = IF pc'[c] = "handler" THEN "claim" ELSE "idle"]
  /\ UNCHANGED <<documentVars, outboxVars, stalls, misread>>

\* Mutant: the lease is ignored.
ClaimableAlways(c) ==
  Current(c) /\ status[Doc(c)] \in {"QUEUED", "FAILED", "PROCESSING"}

\* Free to take: not started, failed, or held beyond the lease.
Claimable(c) ==
  /\ Current(c)
  /\ \/ status[Doc(c)] \in {"QUEUED", "FAILED"}
     \/ status[Doc(c)] = "PROCESSING" /\ Doc(c) \in expired

\* claim_ingestion: its UPDATE takes the document, ACQUIRED ...
ClaimAcquired(c) ==
  /\ step[c] = "claim" /\ Claimable(c)
  /\ status' = [status EXCEPT ![Doc(c)] = "PROCESSING"]
  /\ expired' = expired \ {Doc(c)}
  /\ step' = [step EXCEPT ![c] = "work"]
  /\ UNCHANGED <<vars, generation, chunks, outboxVars, stalls, misread>>

\* ... or finds nothing to take.
ClaimMisses(c) ==
  /\ step[c] = "claim" /\ ~Claimable(c)
  /\ step' = [step EXCEPT ![c] = "look"]
  /\ UNCHANGED <<vars, documentVars, outboxVars, stalls, misread>>

\* What its SELECT sees, a statement later: the generation is still worked on.
Held(c) == Current(c) /\ status[Doc(c)] = "PROCESSING"

\* claim_ingestion, BUSY: handle_payload raises KnowledgeLeaseBusy.
ClaimBusy(c) ==
  /\ step[c] = "look" /\ Held(c)
  /\ HandlerFails(c)
  /\ step' = [step EXCEPT ![c] = "idle"]
  /\ UNCHANGED <<documentVars, outboxVars, stalls, misread>>

\* claim_ingestion, TERMINAL: a READY, deleted or newer document, or one that
\* has failed since the UPDATE.
ClaimTerminal(c) ==
  /\ step[c] = "look" /\ ~Held(c)
  /\ HandlerSucceeds(c)
  /\ step' = [step EXCEPT ![c] = "idle"]
  /\ misread' = IF Current(c) /\ status[Doc(c)] # "READY" THEN misread \cup {Task(c)}
                ELSE misread
  /\ UNCHANGED <<documentVars, outboxVars, stalls>>

\* Mutant: the completion is fenced by the status only.
CompleteUnfenced(c) ==
  LET d == Doc(c) IN
  /\ step[c] = "work"
  /\ IF status[d] = "PROCESSING"
     THEN /\ chunks' = [chunks EXCEPT ![d] = Task(c)[2]]
          /\ status' = [status EXCEPT ![d] = "READY"]
          /\ expired' = expired \ {d}
     ELSE UNCHANGED <<chunks, status, expired>>
  /\ HandlerSucceeds(c)
  /\ step' = [step EXCEPT ![c] = "idle"]
  /\ UNCHANGED <<generation, outboxVars, stalls, misread>>

\* complete_ingestion: replace the chunks and become READY, or find out that the
\* document is no longer PROCESSING this generation and write nothing.
Complete(c) ==
  LET d == Doc(c) IN
  /\ step[c] = "work"
  /\ IF Current(c) /\ status[d] = "PROCESSING"
     THEN /\ chunks' = [chunks EXCEPT ![d] = generation[d]]
          /\ status' = [status EXCEPT ![d] = "READY"]
          /\ expired' = expired \ {d}
     ELSE UNCHANGED <<chunks, status, expired>>
  /\ HandlerSucceeds(c)
  /\ step' = [step EXCEPT ![c] = "idle"]
  /\ UNCHANGED <<generation, outboxVars, stalls, misread>>

\* Extraction, embedding or completion raised; fail_ingestion looks at the
\* generation only, and may itself raise and change nothing.
Fail(c) ==
  LET d == Doc(c) IN
  /\ step[c] = "work"
  /\ \/ /\ Current(c)
        /\ status' = [status EXCEPT ![d] = "FAILED"]
        /\ expired' = expired \ {d}
     \/ UNCHANGED <<status, expired>>
  /\ HandlerFails(c)
  /\ step' = [step EXCEPT ![c] = "idle"]
  /\ UNCHANGED <<generation, chunks, outboxVars, stalls, misread>>

\* ingestion_lease_seconds pass since the claim.  It is a stall if a worker is
\* still at that generation.
LeaseExpires(d) ==
  /\ status[d] = "PROCESSING" /\ d \notin expired
  /\ IF \E c \in Consumer : step[c] = "work" /\ Task(c) = <<d, generation[d]>>
     THEN stalls < MaxStalls /\ stalls' = stalls + 1
     ELSE UNCHANGED stalls
  /\ expired' = expired \cup {d}
  /\ UNCHANGED <<vars, status, generation, chunks, outboxVars, step, misread>>

\* The worker dies or is cancelled: the document stays PROCESSING.
Crash(c) ==
  /\ IterationFails(c)
  /\ step' = [step EXCEPT ![c] = "idle"]
  /\ UNCHANGED <<documentVars, outboxVars, stalls, misread>>

-----------------------------------------------------------------------------
IngestStep(c) ==
  \/ Dispatch(c) \/ ClaimAcquired(c) \/ ClaimMisses(c) \/ ClaimBusy(c) \/ ClaimTerminal(c)
  \/ Complete(c) \/ Fail(c)

\* The parts of process_available outside the handler (MarkOnce is for streams
\* with a dedupe key).
LoopStep(c) ==
  /\ \/ ClaimStale(c) \/ TakeStale(c) \/ ReadNew(c) \/ TakeFresh(c) \/ EndIteration(c)
     \/ Bury(c) \/ Ack(c)
  /\ UNCHANGED ingestVars

FlushStep(p) ==
  Flush(p) \/ PublishTask(p) \/ PublishRaises(p) \/ MarkPublished(p) \/ FlushFails(p)

Request(d) == Upload(d) \/ UploadAgain(d) \/ Requeue(d) \/ Delete(d)

IngestNext ==
  \/ \E c \in Consumer : IngestStep(c) \/ LoopStep(c) \/ Crash(c)
  \/ \E p \in Dispatcher : FlushStep(p)
  \/ \E d \in Document : Request(d) \/ LeaseExpires(d)
  \/ \E t \in Envelope : ReplayDeadLetter(t) /\ UNCHANGED ingestVars
  \/ \E i \in EntryId : BecomesStale(i) /\ UNCHANGED ingestVars

IngestSpec == IngestInit /\ [][IngestNext]_allVars

-----------------------------------------------------------------------------
(* Properties.                                                             *)

\* complete_ingestion and the queries of search: a READY document, the only
\* kind that is searched, holds the chunks of its current generation, whatever
\* reingests, deletes, slow workers and second workers do.
ReadyIsCurrent ==
  \A d \in Document : status[d] = "READY" => chunks[d] = generation[d]

\* The outbox has the task, or it is in the stream and not settled, or it is a
\* dead letter, or MAXLEN trimmed it.
Kept(t) ==
  \/ t \in unpublished
  \/ dead[t] > 0
  \/ \E i \in 1..Len(log) : log[i] = t /\ (i > last \/ pending[i] > 0 \/ i \notin live)

\* The outbox and claim_ingestion: the task of a document that waits for its
\* ingestion is kept, whatever crashes, failed publishes, duplicate tasks, busy
\* leases and re-uploads do: always while nobody has begun it, and afterwards
\* unless a worker outlived its lease or a claim saw the failure of another
\* worker between its two statements and took it for the end.
NothingStranded ==
  \A d \in Document :
    LET t == <<d, generation[d]>> IN
    /\ status[d] = "QUEUED" => Kept(t)
    /\ status[d] \in {"PROCESSING", "FAILED"} /\ stalls = 0 /\ t \notin misread => Kept(t)

\* claim_ingestion: a generation of a document is worked on by one worker at a
\* time, although its task may be in the stream twice, and the document stays
\* PROCESSING under it, so that a late failure never undoes a READY document,
\* as long as no worker outlives its lease.
OneWorkerPerGeneration ==
  stalls = 0 =>
    \A c \in Consumer : step[c] = "work" /\ Current(c) =>
      /\ status[Doc(c)] = "PROCESSING"
      /\ \A b \in Consumer \ {c} : step[b] = "work" => Task(b) # Task(c)
=============================================================================
