---------------------- MODULE KnowledgeIngestionProofs ----------------------
(***************************************************************************)
(* A READY document always holds the chunks of its current generation, and  *)
(* the knowledge workers implement the stream.                              *)
(***************************************************************************)
EXTENDS KnowledgeIngestion, StreamConsumerProofs

USE TaskAssumption, StallAssumption

\* The tables and the dispatchers' lists, without the stream.
DocumentType ==
  /\ status \in [Document -> Status]
  /\ generation \in [Document -> 0..MaxGeneration]
  /\ chunks \in [Document -> 0..MaxGeneration]
  /\ \A d \in Document : Present(d) => generation[d] >= 1
  /\ \A d \in Document : status[d] = "absent" => generation[d] = 0
  /\ unpublished \subseteq Envelope
  /\ todo \in [Dispatcher -> SUBSET Envelope]
  /\ sending \in [Dispatcher -> Envelope \cup {NoTask}]

\* A document row keeps its type, and what is READY is current.
DocumentInv == DocumentType /\ ReadyIsCurrent

\* The operator's requests: a reingest leaves READY in the same transaction in
\* which it raises the generation.
LEMMA RequestInv ==
  ASSUME DocumentInv, NEW d \in Document, Request(d)
  PROVE  DocumentInv'
<1> USE DEF DocumentInv, DocumentType, ReadyIsCurrent, Present, Status
<1>1. CASE Upload(d)
  BY <1>1 DEF Upload
<1>2. CASE UploadAgain(d)
  BY <1>2 DEF UploadAgain, documentVars
<1>3. CASE Requeue(d)
  BY <1>3 DEF Requeue
<1>4. CASE Delete(d)
  BY <1>4 DEF Delete
<1> QED
  BY <1>1, <1>2, <1>3, <1>4 DEF Request

\* The dispatchers touch no document, and only pass on tasks they have read.
LEMMA FlushInv ==
  ASSUME DocumentInv, NEW p \in Dispatcher, FlushStep(p)
  PROVE  DocumentInv'
<1> USE DEF DocumentInv, DocumentType, ReadyIsCurrent, Present, documentVars
<1>1. CASE Flush(p)
  BY <1>1 DEF Flush
<1>2. CASE PublishTask(p)
  BY <1>2 DEF PublishTask
<1>3. CASE PublishRaises(p)
  BY <1>3 DEF PublishRaises
<1>4. CASE MarkPublished(p)
  BY <1>4 DEF MarkPublished
<1>5. CASE FlushFails(p)
  BY <1>5 DEF FlushFails
<1> QED
  BY <1>1, <1>2, <1>3, <1>4, <1>5 DEF FlushStep

\* The workers: only a completion makes a document READY, under the row lock and
\* with the chunks of the generation it has just compared.
LEMMA WorkInv ==
  ASSUME DocumentInv, NEW c \in Consumer, IngestStep(c)
  PROVE  DocumentInv'
<1> USE DEF DocumentInv, DocumentType, ReadyIsCurrent, Present, Status, outboxVars
<1>1. CASE Dispatch(c) \/ ClaimMisses(c) \/ ClaimBusy(c) \/ ClaimTerminal(c)
  BY <1>1 DEF Dispatch, ClaimMisses, ClaimBusy, ClaimTerminal, documentVars
<1>2. CASE ClaimAcquired(c)
  BY <1>2 DEF ClaimAcquired, Claimable, Current
<1>3. CASE Complete(c)
  BY <1>3 DEF Complete, Current
<1>4. CASE Fail(c)
  BY <1>4 DEF Fail, Current
<1> QED
  BY <1>1, <1>2, <1>3, <1>4 DEF IngestStep

\* Every step keeps the invariant.
LEMMA DocumentInvStep == DocumentInv /\ [IngestNext]_allVars => DocumentInv'
<1> SUFFICES ASSUME DocumentInv, [IngestNext]_allVars PROVE DocumentInv'
  OBVIOUS
<1>a. CASE UNCHANGED <<documentVars, outboxVars>>
  BY <1>a DEF DocumentInv, DocumentType, ReadyIsCurrent, Present, documentVars, outboxVars
<1>b. CASE UNCHANGED ingestVars
  BY <1>a, <1>b DEF ingestVars
<1>1. ASSUME NEW c \in Consumer, LoopStep(c) \/ Crash(c) PROVE DocumentInv'
  BY <1>1, <1>a, <1>b DEF LoopStep, Crash
<1>2. ASSUME NEW d \in Document, LeaseExpires(d) PROVE DocumentInv'
  BY <1>2 DEF LeaseExpires, outboxVars, DocumentInv, DocumentType, ReadyIsCurrent, Present
<1>3. CASE UNCHANGED allVars
  BY <1>3, <1>b DEF allVars
<1> QED
  BY <1>1, <1>2, <1>3, <1>b, WorkInv, FlushInv, RequestInv DEF IngestNext

\* Whatever reingests, deletes, stalled workers and duplicate tasks do, a READY
\* document is searched by the chunks of its current generation (repositories/
\* knowledge.py, complete_ingestion, requeue_document, fail_ingestion).
THEOREM ReadyIsAlwaysCurrent == IngestSpec => []ReadyIsCurrent
<1>1. IngestInit => DocumentInv
  BY DEF IngestInit, DocumentInv, DocumentType, ReadyIsCurrent, Present, Status
<1>2. DocumentInv => ReadyIsCurrent
  BY DEF DocumentInv
<1> QED
  BY <1>1, <1>2, DocumentInvStep, PTL DEF IngestSpec

-----------------------------------------------------------------------------
\* Every step of the ingestion is a step of the knowledge stream, or none.
LEMMA IngestStepImplements == DocumentInv /\ [IngestNext]_allVars => [Next]_vars
<1> SUFFICES ASSUME DocumentInv, [IngestNext]_allVars PROVE [Next]_vars
  OBVIOUS
<1>1. ASSUME NEW c \in Consumer, IngestStep(c) PROVE [Next]_vars
  <2>1. CheckOnce(c) \/ HandlerSucceeds(c) \/ HandlerFails(c) \/ UNCHANGED vars
    BY <1>1 DEF IngestStep, Dispatch, ClaimAcquired, ClaimMisses, ClaimBusy, ClaimTerminal, Complete, Fail
  <2> QED
    BY <2>1 DEF Next, ConsumerStep
<1>2. ASSUME NEW c \in Consumer, LoopStep(c) \/ Crash(c) PROVE [Next]_vars
  BY <1>2 DEF LoopStep, Crash, Next, ConsumerStep
<1>3. ASSUME NEW p \in Dispatcher, FlushStep(p) PROVE [Next]_vars
  <2>1. CASE PublishTask(p)
    <3>1. PICK t \in todo[p] : Publish(t)
      BY <2>1 DEF PublishTask
    <3>2. t \in Envelope
      BY <3>1 DEF DocumentInv, DocumentType
    <3> QED
      BY <3>1, <3>2 DEF Next
  <2>2. CASE Flush(p) \/ PublishRaises(p) \/ MarkPublished(p) \/ FlushFails(p)
    BY <2>2 DEF Flush, PublishRaises, MarkPublished, FlushFails
  <2> QED
    BY <1>3, <2>1, <2>2 DEF FlushStep
<1>4. ASSUME NEW d \in Document, Request(d) \/ LeaseExpires(d) PROVE UNCHANGED vars
  BY <1>4 DEF Request, Upload, UploadAgain, Requeue, Delete, LeaseExpires
<1>5. CASE UNCHANGED allVars
  BY <1>5 DEF allVars
<1> QED
  BY <1>1, <1>2, <1>3, <1>4, <1>5 DEF IngestNext, Next

\* The knowledge workers and dispatchers implement StreamConsumer, so what is
\* proved of the stream holds of them.
THEOREM IngestImplementsStream == IngestSpec => Spec
<1>1. IngestInit => Init /\ DocumentInv
  BY DEF IngestInit, DocumentInv, DocumentType, ReadyIsCurrent, Present, Status
<1> QED
  BY <1>1, DocumentInvStep, IngestStepImplements, PTL DEF IngestSpec, Spec

-----------------------------------------------------------------------------
(* Who works on a generation, and what becomes of a waiting document.       *)

\* A worker has a place in handle_payload exactly while its handler runs.
PlaceInv ==
  /\ step \in [Consumer -> {"idle", "claim", "look", "work"}] /\ stalls \in Nat
  /\ \A c \in Consumer : step[c] = "idle" <=> pc[c] # "handler"

\* A task is made for a generation the document has reached.
Known(t) == status[t[1]] # "absent" /\ t[2] <= generation[t[1]]

\* Only such tasks are in the outbox, in the streams and in between.
KnownInv ==
  /\ \A t \in unpublished : Known(t)
  /\ \A p \in Dispatcher : \A t \in todo[p] : Known(t)
  /\ \A i \in 1..Len(log) : Known(log[i])
  /\ \A t \in Envelope : dead[t] > 0 => Known(t)
  /\ \A p \in Dispatcher :
       sending[p] # NoTask => \E i \in 1..Len(log) : log[i] = sending[p]

\* Without a stall, a worker at the current generation holds the lease alone.
HoldsLease(c) ==
  /\ status[Doc(c)] = "PROCESSING" /\ Doc(c) \notin expired
  /\ \A b \in Consumer \ {c} : step[b] = "work" => Task(b) # Task(c)

LeaseInv ==
  stalls = 0 => \A c \in Consumer : step[c] = "work" /\ Current(c) => HoldsLease(c)

\* The task's document waits for this generation.
Waiting(t) ==
  status[t[1]] \in {"QUEUED", "PROCESSING", "FAILED"} /\ generation[t[1]] = t[2]

\* ... and the task may not be lost: nobody has begun it, or nothing went wrong
\* with its lease.
Protected(t) ==
  Waiting(t) /\ (status[t[1]] = "QUEUED" \/ (stalls = 0 /\ t \notin misread))

\* A document that somebody has tried to claim is no longer QUEUED.
BegunInv ==
  \A c \in Consumer : step[c] \in {"look", "work"} /\ Current(c) => status[Doc(c)] # "QUEUED"

\* Entry i is still to be delivered, or pending, or trimmed.
Unsettled(i) == i > last \/ pending[i] > 0 \/ i \notin live

\* A waiting document's task is in the outbox or has been published.
OutboxInv ==
  \A d \in Document :
    Waiting(<<d, generation[d]>>) =>
      <<d, generation[d]>> \in unpublished
      \/ \E i \in 1..Len(log) : log[i] = <<d, generation[d]>>

\* Entry i does not leave its task behind: the task is a dead letter, or entry k
\* of the same task is unsettled.
CoveredFrom(i, K) ==
  dead[log[i]] > 0 \/ \E k \in K : log[k] = log[i] /\ Unsettled(k)

\* Every published task that is protected is covered, and stays so when the
\* entry a worker is about to ack is gone.
CoverInv ==
  /\ \A i \in 1..Len(log) : Protected(log[i]) => CoveredFrom(i, i..Len(log))
  /\ \A c \in Consumer :
       pc[c] = "ack" /\ Protected(log[cur[c]]) => CoveredFrom(cur[c], (cur[c] + 1)..Len(log))

\* The inductive invariant of the ingestion.
IngestInv ==
  /\ StreamInv /\ DocumentInv /\ PlaceInv /\ KnownInv /\ LeaseInv /\ BegunInv /\ OutboxInv
  /\ CoverInv

\* A task names a document and a generation.
LEMMA TaskFacts ==
  ASSUME NEW t \in Envelope
  PROVE  t[1] \in Document /\ t[2] \in Nat /\ t[2] >= 1 /\ t = <<t[1], t[2]>>
BY TaskAssumption

\* The task a worker has at hand was published.
LEMMA WorkFacts ==
  ASSUME TypeOK, PlaceInv, NEW c \in Consumer, step[c] # "idle"
  PROVE  /\ pc[c] = "handler" /\ cur[c] \in 1..Len(log)
         /\ Task(c) \in Envelope /\ Doc(c) \in Document /\ Task(c)[2] \in Nat
<1>1. pc[c] = "handler"
  BY DEF PlaceInv
<1>2. cur[c] \in 1..Len(log) /\ log[cur[c]] \in Envelope
  BY <1>1, CurrentEntry
<1> QED
  BY <1>1, <1>2, TaskFacts DEF Task, Doc

\* The steps of the ingestion, by the worker that moves.
LEMMA PlaceStep ==
  ASSUME TypeOK, PlaceInv, [IngestNext]_allVars
  PROVE  PlaceInv'
<1>a. /\ step \in [Consumer -> {"idle", "claim", "look", "work"}] /\ pc \in [Consumer -> PC]
      /\ \A c \in Consumer : step[c] = "idle" <=> pc[c] # "handler"
      /\ stalls \in Nat
  BY DEF PlaceInv, TypeOK, ConsumerType
<1>1. CASE UNCHANGED <<step, stalls, pc>>
  BY <1>a, <1>1 DEF PlaceInv
<1>2. ASSUME NEW c \in Consumer, NEW s \in {"idle", "claim", "look", "work"}, NEW q \in PC,
             step' = [step EXCEPT ![c] = s], pc' = [pc EXCEPT ![c] = q],
             s = "idle" <=> q # "handler", stalls' = stalls
      PROVE  PlaceInv'
  BY <1>a, <1>2 DEF PlaceInv
<1>3. ASSUME NEW c \in Consumer, IngestStep(c) PROVE PlaceInv'
  <2>1. CASE Dispatch(c)
    <3>1. pc' = [pc EXCEPT ![c] = "handler"] /\ stalls' = stalls
      BY <2>1 DEF Dispatch, CheckOnce
    <3>2. step' = [step EXCEPT ![c] = "claim"]
      BY <1>a, <2>1, <3>1 DEF Dispatch
    <3> QED
      BY <1>2, <3>1, <3>2 DEF PC
  <2>2. CASE ClaimAcquired(c) \/ ClaimMisses(c)
    <3>1. /\ step[c] = "claim" /\ UNCHANGED <<pc, stalls>>
          /\ \E s \in {"look", "work"} : step' = [step EXCEPT ![c] = s]
      BY <2>2 DEF ClaimAcquired, ClaimMisses, vars, consumerVars
    <3> QED
      BY <1>a, <3>1 DEF PlaceInv
  <2>3. CASE ClaimBusy(c) \/ ClaimTerminal(c) \/ Complete(c) \/ Fail(c)
    <3>1. /\ step' = [step EXCEPT ![c] = "idle"] /\ stalls' = stalls
          /\ \E q \in PC \ {"handler"} : pc' = [pc EXCEPT ![c] = q]
      BY <2>3 DEF ClaimBusy, ClaimTerminal, Complete, Fail, HandlerFails, HandlerSucceeds, PC
    <3> QED
      BY <1>2, <3>1
  <2> QED
    BY <1>3, <2>1, <2>2, <2>3 DEF IngestStep
<1>4. ASSUME NEW c \in Consumer, LoopStep(c) PROVE PlaceInv'
  <2>1. UNCHANGED <<step, stalls>>
    BY <1>4 DEF LoopStep, ingestVars
  <2>2. pc[c] # "handler" /\ \E q \in PC \ {"handler"} : pc' = [pc EXCEPT ![c] = q]
    <3>1. \/ ClaimStale(c) \/ TakeStale(c) \/ ReadNew(c) \/ TakeFresh(c) \/ EndIteration(c)
          \/ Bury(c) \/ Ack(c)
      BY <1>4 DEF LoopStep
    <3> QED
      BY <3>1 DEF ClaimStale, TakeStale, ReadNew, TakeFresh, EndIteration, Bury, Ack, PC
  <2> QED
    BY <1>a, <2>1, <2>2 DEF PlaceInv
<1>5. ASSUME NEW c \in Consumer, Crash(c) PROVE PlaceInv'
  <2>1. /\ step' = [step EXCEPT ![c] = "idle"] /\ stalls' = stalls
        /\ pc' = [pc EXCEPT ![c] = "claim"]
    BY <1>5 DEF Crash, IterationFails
  <2> QED
    BY <1>2, <2>1 DEF PC
<1>6. ASSUME NEW p \in Dispatcher, FlushStep(p) PROVE PlaceInv'
  <2>1. UNCHANGED <<step, stalls, pc>>
    BY <1>6 DEF FlushStep, Flush, PublishTask, PublishRaises, MarkPublished, FlushFails,
       Publish, vars, consumerVars
  <2> QED
    BY <1>1, <2>1
<1>7. ASSUME NEW d \in Document, Request(d) PROVE PlaceInv'
  <2>1. UNCHANGED <<step, stalls, pc>>
    BY <1>7 DEF Request, Upload, UploadAgain, Requeue, Delete, vars, consumerVars
  <2> QED
    BY <1>1, <2>1
<1>8. ASSUME NEW d \in Document, LeaseExpires(d) PROVE PlaceInv'
  <2>1. UNCHANGED <<step, pc>> /\ (stalls' = stalls \/ stalls' = stalls + 1)
    BY <1>8 DEF LeaseExpires, vars, consumerVars
  <2> QED
    BY <1>a, <2>1 DEF PlaceInv
<1>9. ASSUME NEW t \in Envelope, ReplayDeadLetter(t), UNCHANGED ingestVars PROVE PlaceInv'
  BY <1>1, <1>9 DEF ReplayDeadLetter, ingestVars, consumerVars
<1>10. ASSUME NEW i \in EntryId, BecomesStale(i), UNCHANGED ingestVars PROVE PlaceInv'
  BY <1>1, <1>10 DEF BecomesStale, ingestVars, consumerVars
<1>11. CASE UNCHANGED allVars
  BY <1>1, <1>11 DEF allVars, ingestVars, vars, consumerVars
<1> QED
  BY <1>3, <1>4, <1>5, <1>6, <1>7, <1>8, <1>9, <1>10, <1>11 DEF IngestNext

\* The row of document d, seen by a step that is no stall.
LEMMA RowFacts ==
  ASSUME TypeOK, PlaceInv, DocumentInv, LeaseInv, [IngestNext]_allVars, NEW d \in Document
  PROVE  /\ generation[d] \in Nat /\ generation'[d] \in Nat /\ generation[d] <= generation'[d]
         /\ status[d] # "absent" => status'[d] # "absent"
         /\ stalls' = 0 => stalls = 0
         /\ stalls' = 0 /\ generation'[d] = generation[d]
              /\ status'[d] \in {"QUEUED", "PROCESSING", "FAILED"}
              => status[d] \in {"QUEUED", "PROCESSING", "FAILED", "absent"}
         /\ generation'[d] = generation[d] /\ status'[d] = "QUEUED"
              => status[d] \in {"QUEUED", "absent"}
         /\ misread \subseteq misread'
<1>a. /\ status \in [Document -> Status] /\ generation \in [Document -> 0..MaxGeneration]
      /\ MaxGeneration \in Nat /\ stalls \in Nat
      /\ step \in [Consumer -> {"idle", "claim", "look", "work"}]
  BY DEF DocumentInv, DocumentType, PlaceInv
<1>b. generation[d] \in Nat
  BY <1>a
<1>1. CASE /\ UNCHANGED <<status, generation, misread>>
           /\ (stalls' = stalls \/ stalls' = stalls + 1)
  BY <1>a, <1>b, <1>1
<1>2. ASSUME NEW e \in Document, Request(e)
      PROVE  /\ generation'[d] \in Nat /\ generation[d] <= generation'[d] /\ stalls' = stalls
             /\ status[d] # "absent" => status'[d] # "absent"
             /\ generation'[d] = generation[d]
                  /\ status'[d] \in {"QUEUED", "PROCESSING", "FAILED"}
                  => status[d] \in {"QUEUED", "PROCESSING", "FAILED", "absent"}
             /\ generation'[d] = generation[d] /\ status'[d] = "QUEUED"
                  => status[d] \in {"QUEUED", "absent"}
             /\ misread' = misread
  <2>a. misread' = misread
    BY <1>2 DEF Request, Upload, UploadAgain, Requeue, Delete
  <2>1. CASE Upload(e)
    <3>1. /\ status[e] = "absent" /\ status' = [status EXCEPT ![e] = "QUEUED"]
          /\ generation' = [generation EXCEPT ![e] = 1] /\ stalls' = stalls
      BY <2>1 DEF Upload
    <3>2. CASE d = e
      <4>1. generation'[d] = 1 /\ status'[d] = "QUEUED" /\ status[d] = "absent"
        BY <1>a, <3>1, <3>2
      <4>2. generation[d] = 0
        BY <4>1 DEF DocumentInv, DocumentType
      <4> QED
        BY <2>a, <3>1, <4>1, <4>2
    <3>3. CASE d # e
      BY <2>a, <1>a, <1>b, <3>1, <3>3
    <3> QED
      BY <3>2, <3>3
  <2>2. CASE UploadAgain(e)
    BY <1>b, <2>2 DEF UploadAgain, documentVars
  <2>3. CASE Requeue(e)
    <3>1. /\ Present(e) /\ status' = [status EXCEPT ![e] = "QUEUED"]
          /\ generation' = [generation EXCEPT ![e] = @ + 1] /\ stalls' = stalls
      BY <2>3 DEF Requeue
    <3>2. CASE d = e
      <4>1. generation'[d] = generation[d] + 1 /\ status'[d] = "QUEUED"
        BY <1>a, <3>1, <3>2
      <4> QED
        BY <2>a, <1>b, <3>1, <4>1
    <3>3. CASE d # e
      BY <2>a, <1>a, <1>b, <3>1, <3>3
    <3> QED
      BY <2>a, <3>2, <3>3
  <2>4. CASE Delete(e)
    <3>1. /\ status' = [status EXCEPT ![e] = "gone"] /\ generation' = generation
          /\ stalls' = stalls
      BY <2>4 DEF Delete
    <3> QED
      BY <2>a, <1>a, <1>b, <3>1
  <2> QED
    BY <1>2, <2>1, <2>2, <2>3, <2>4 DEF Request
<1>3. ASSUME NEW c \in Consumer, IngestStep(c)
      PROVE  /\ generation' = generation /\ stalls' = stalls
             /\ status[d] # "absent" => status'[d] # "absent"
             /\ stalls = 0 /\ status'[d] \in {"QUEUED", "PROCESSING", "FAILED"}
                  => status[d] \in {"QUEUED", "PROCESSING", "FAILED", "absent"}
             /\ status'[d] = "QUEUED" => status[d] = "QUEUED"
             /\ misread \subseteq misread'
  <2>a. misread \subseteq misread'
    BY <1>3 DEF IngestStep, Dispatch, ClaimAcquired, ClaimMisses, ClaimBusy, ClaimTerminal,
       Complete, Fail
  <2>1. CASE Dispatch(c) \/ ClaimMisses(c) \/ ClaimBusy(c) \/ ClaimTerminal(c)
    BY <2>1 DEF Dispatch, ClaimMisses, ClaimBusy, ClaimTerminal, documentVars
  <2>2. CASE ClaimAcquired(c)
    <3>1. /\ status' = [status EXCEPT ![Doc(c)] = "PROCESSING"]
          /\ status[Doc(c)] \in {"QUEUED", "FAILED", "PROCESSING"}
          /\ UNCHANGED <<generation, stalls>>
      BY <2>2 DEF ClaimAcquired, Claimable
    <3> QED
      BY <2>a, <1>a, <3>1
  <2>3. CASE Complete(c)
    <3>1. UNCHANGED <<generation, stalls>>
          /\ (status' = status \/ status' = [status EXCEPT ![Doc(c)] = "READY"])
      BY <2>3 DEF Complete
    <3> QED
      BY <2>a, <1>a, <3>1
  <2>4. CASE Fail(c)
    <3>1. /\ UNCHANGED <<generation, stalls>> /\ step[c] = "work"
          /\ \/ status' = status
             \/ Current(c) /\ status' = [status EXCEPT ![Doc(c)] = "FAILED"]
      BY <2>4 DEF Fail
    <3>2. stalls = 0 /\ Current(c) => status[Doc(c)] = "PROCESSING"
      BY <3>1 DEF LeaseInv, HoldsLease
    <3> QED
      BY <2>a, <1>a, <3>1, <3>2
  <2> QED
    BY <1>3, <2>1, <2>2, <2>3, <2>4 DEF IngestStep
<1>4. ASSUME NEW p \in Dispatcher, FlushStep(p) PROVE UNCHANGED <<status, generation, stalls, misread>>
  BY <1>4 DEF FlushStep, Flush, PublishTask, PublishRaises, MarkPublished, FlushFails, documentVars
<1>5. ASSUME NEW c \in Consumer, LoopStep(c) \/ Crash(c)
      PROVE  UNCHANGED <<status, generation, stalls, misread>>
  BY <1>5 DEF LoopStep, Crash, ingestVars, documentVars
<1>6. ASSUME NEW e \in Document, LeaseExpires(e)
      PROVE  /\ UNCHANGED <<status, generation, misread>>
             /\ (stalls' = stalls \/ stalls' = stalls + 1)
  BY <1>6 DEF LeaseExpires
<1>7. CASE UNCHANGED ingestVars \/ UNCHANGED allVars
  BY <1>1, <1>7 DEF ingestVars, allVars, documentVars
<1> QED
  BY <1>b, <1>1, <1>2, <1>3, <1>4, <1>5, <1>6, <1>7 DEF IngestNext

\* A task that is known stays known, and a document never starts to wait for a
\* generation it has already left behind.
LEMMA KnownStays ==
  ASSUME TypeOK, PlaceInv, DocumentInv, LeaseInv, [IngestNext]_allVars,
         NEW t \in Envelope, Known(t)
  PROVE  /\ Known(t)'
         /\ stalls' = 0 => stalls = 0
         /\ stalls' = 0 /\ Waiting(t)' => Waiting(t)
         /\ Protected(t)' => Protected(t)
<1>1. t[1] \in Document /\ t[2] \in Nat
  BY TaskFacts
<1>2. /\ generation[t[1]] \in Nat /\ generation'[t[1]] \in Nat
      /\ generation[t[1]] <= generation'[t[1]]
      /\ status[t[1]] # "absent" => status'[t[1]] # "absent"
      /\ stalls' = 0 => stalls = 0
      /\ stalls' = 0 /\ generation'[t[1]] = generation[t[1]]
           /\ status'[t[1]] \in {"QUEUED", "PROCESSING", "FAILED"}
           => status[t[1]] \in {"QUEUED", "PROCESSING", "FAILED", "absent"}
      /\ generation'[t[1]] = generation[t[1]] /\ status'[t[1]] = "QUEUED"
           => status[t[1]] \in {"QUEUED", "absent"}
      /\ misread \subseteq misread'
  BY <1>1, RowFacts
<1>3. status[t[1]] # "absent" /\ t[2] <= generation[t[1]]
  BY DEF Known
<1>4. Known(t)'
  <2>1. t[2] <= generation'[t[1]]
    BY <1>1, <1>2, <1>3
  <2> QED
    BY <1>2, <1>3, <2>1 DEF Known
<1>5. stalls' = 0 /\ Waiting(t)' => Waiting(t)
  <2> SUFFICES ASSUME stalls' = 0, Waiting(t)' PROVE Waiting(t)
    OBVIOUS
  <2>1. generation'[t[1]] = t[2] /\ status'[t[1]] \in {"QUEUED", "PROCESSING", "FAILED"}
    BY DEF Waiting
  <2>2. generation'[t[1]] = generation[t[1]]
    BY <1>1, <1>2, <1>3, <2>1
  <2> QED
    BY <1>2, <1>3, <2>1, <2>2 DEF Waiting
<1>6. Protected(t)' => Protected(t)
  <2> SUFFICES ASSUME Protected(t)' PROVE Protected(t)
    OBVIOUS
  <2>1. CASE status'[t[1]] = "QUEUED"
    <3>1. generation'[t[1]] = t[2]
      BY DEF Protected, Waiting
    <3>2. generation'[t[1]] = generation[t[1]]
      BY <1>1, <1>2, <1>3, <3>1
    <3> QED
      BY <1>2, <1>3, <2>1, <3>1, <3>2 DEF Protected, Waiting
  <2>2. CASE status'[t[1]] # "QUEUED"
    <3>1. stalls' = 0 /\ Waiting(t)' /\ t \notin misread'
      BY <2>2 DEF Protected
    <3> QED
      BY <1>2, <1>5, <3>1 DEF Protected
  <2> QED
    BY <2>1, <2>2
<1> QED
  BY <1>2, <1>4, <1>5, <1>6

\* What a step does to the log: nothing, or one more task that was known.
LEMMA LogFacts ==
  ASSUME TypeOK, DocumentInv, KnownInv, [IngestNext]_allVars
  PROVE  /\ Len(log) \in Nat /\ Len(log') \in Nat /\ Len(log) <= Len(log')
         /\ Len(log') <= Len(log) + 1
         /\ \A i \in 1..Len(log) : log'[i] = log[i] /\ log[i] \in Envelope
         /\ Len(log') = Len(log) + 1 => log'[Len(log) + 1] \in Envelope
         /\ Len(log') = Len(log) + 1 => \/ \E p \in Dispatcher : log'[Len(log) + 1] \in todo[p]
                                        \/ dead[log'[Len(log) + 1]] > 0
<1>1. log \in Seq(Envelope) /\ Len(log) \in Nat /\ StreamType
  BY DEF TypeOK, StreamType
<1>2. CASE log' = log
  BY <1>1, <1>2
<1>3. ASSUME NEW t \in Envelope, Add(t), (\E p \in Dispatcher : t \in todo[p]) \/ dead[t] > 0
      PROVE  /\ Len(log') = Len(log) + 1 /\ log'[Len(log) + 1] = t
             /\ \A i \in 1..Len(log) : log'[i] = log[i]
  BY <1>1, <1>3 DEF Add
<1>4. CASE \E t \in Envelope : Add(t) /\ ((\E p \in Dispatcher : t \in todo[p]) \/ dead[t] > 0)
  BY <1>1, <1>3, <1>4
<1>5. ASSUME NEW p \in Dispatcher, PublishTask(p)
      PROVE  \E t \in Envelope : Add(t) /\ t \in todo[p]
  <2>1. PICK t \in todo[p] : Publish(t)
    BY <1>5 DEF PublishTask
  <2>2. t \in Envelope
    BY DEF DocumentInv, DocumentType
  <2> QED
    BY <2>1, <2>2 DEF Publish
<1>6. ASSUME NEW t \in Envelope, ReplayDeadLetter(t) PROVE Add(t) /\ dead[t] > 0
  BY <1>6 DEF ReplayDeadLetter
<1>7. ASSUME NEW c \in Consumer, IngestStep(c) \/ LoopStep(c) \/ Crash(c) PROVE log' = log
  <2>1. CASE IngestStep(c)
    BY <2>1 DEF IngestStep, Dispatch, ClaimAcquired, ClaimMisses, ClaimBusy, ClaimTerminal, Complete, Fail,
       CheckOnce, HandlerFails, HandlerSucceeds, vars, streamVars
  <2>2. CASE LoopStep(c)
    BY <2>2 DEF LoopStep, ClaimStale, TakeStale, ReadNew, TakeFresh, EndIteration, Bury, Ack,
       streamVars
  <2>3. CASE Crash(c)
    BY <2>3 DEF Crash, IterationFails, streamVars
  <2> QED
    BY <1>7, <2>1, <2>2, <2>3
<1>8. ASSUME NEW p \in Dispatcher, FlushStep(p), ~PublishTask(p) PROVE log' = log
  BY <1>8 DEF FlushStep, Flush, PublishRaises, MarkPublished, FlushFails, vars, streamVars
<1>9. ASSUME NEW d \in Document, Request(d) \/ LeaseExpires(d) PROVE log' = log
  BY <1>9 DEF Request, Upload, UploadAgain, Requeue, Delete, LeaseExpires, vars, streamVars
<1>10. ASSUME NEW i \in EntryId, BecomesStale(i) PROVE log' = log
  BY <1>10 DEF BecomesStale
<1>11. CASE UNCHANGED allVars
  BY <1>2, <1>11 DEF allVars, vars, streamVars
<1> QED
  BY <1>2, <1>4, <1>5, <1>6, <1>7, <1>8, <1>9, <1>10, <1>11 DEF IngestNext

\* The outbox only ever holds tasks of generations their documents have
\* reached, and a dispatcher marks only what it has published.
LEMMA KnownStep ==
  ASSUME TypeOK, PlaceInv, DocumentInv, LeaseInv, KnownInv, [IngestNext]_allVars
  PROVE  KnownInv'
<1>a. \A t \in Envelope : Known(t) => Known(t)'
  BY KnownStays
<1>b. /\ sending \in [Dispatcher -> Envelope \cup {NoTask}]
      /\ unpublished \subseteq Envelope /\ todo \in [Dispatcher -> SUBSET Envelope]
      /\ status \in [Document -> Status] /\ generation \in [Document -> 0..MaxGeneration]
      /\ MaxGeneration \in Nat
      /\ log \in Seq(Envelope) /\ dead \in [Envelope -> Nat]
      /\ \A d \in Document : generation[d] \in Nat
  BY DEF DocumentInv, DocumentType, TypeOK, StreamType
<1>1. \A t \in unpublished' : Known(t)'
  <2>1. CASE unpublished' \subseteq unpublished
    BY <1>a, <1>b, <2>1 DEF KnownInv
  <2>2. ASSUME NEW d \in Document, Upload(d) PROVE \A t \in unpublished' : Known(t)'
    <3>1. /\ unpublished' = unpublished \cup {<<d, 1>>}
          /\ status' = [status EXCEPT ![d] = "QUEUED"]
          /\ generation' = [generation EXCEPT ![d] = 1]
      BY <2>2 DEF Upload
    <3>2. status'[d] # "absent" /\ generation'[d] = 1
      BY <1>b, <3>1
    <3>3. Known(<<d, 1>>)'
      BY <3>2 DEF Known
    <3> QED
      BY <1>a, <1>b, <3>1, <3>3 DEF KnownInv
  <2>3. ASSUME NEW d \in Document, UploadAgain(d) PROVE \A t \in unpublished' : Known(t)'
    <3>1. /\ unpublished' = unpublished \cup {<<d, generation[d]>>} /\ status[d] = "FAILED"
          /\ UNCHANGED <<status, generation>>
      BY <2>3 DEF UploadAgain, documentVars
    <3>2. Known(<<d, generation[d]>>)'
      BY <1>b, <3>1 DEF Known
    <3> QED
      BY <1>a, <1>b, <3>1, <3>2 DEF KnownInv
  <2>4. ASSUME NEW d \in Document, Requeue(d) PROVE \A t \in unpublished' : Known(t)'
    <3>1. /\ unpublished' = unpublished \cup {<<d, generation[d] + 1>>}
          /\ status' = [status EXCEPT ![d] = "QUEUED"]
          /\ generation' = [generation EXCEPT ![d] = @ + 1]
      BY <2>4 DEF Requeue
    <3>2. status'[d] # "absent" /\ generation'[d] = generation[d] + 1
      BY <1>b, <3>1
    <3>3. \A t \in {<<d, generation[d] + 1>>} : Known(t)'
      BY <1>b, <3>2 DEF Known
    <3> QED
      BY <1>a, <1>b, <3>1, <3>3 DEF KnownInv
  <2>5. ASSUME NEW d \in Document, Delete(d) \/ LeaseExpires(d)
        PROVE  unpublished' \subseteq unpublished
    BY <2>5 DEF Delete, LeaseExpires, outboxVars
  <2>6. ASSUME NEW c \in Consumer, IngestStep(c) \/ LoopStep(c) \/ Crash(c)
        PROVE  unpublished' \subseteq unpublished
    BY <2>6 DEF IngestStep, LoopStep, Crash, Dispatch, ClaimAcquired, ClaimMisses, ClaimBusy, ClaimTerminal,
       Complete, Fail, outboxVars, ingestVars
  <2>7. ASSUME NEW p \in Dispatcher, FlushStep(p) PROVE unpublished' \subseteq unpublished
    BY <2>7 DEF FlushStep, Flush, PublishTask, PublishRaises, MarkPublished, FlushFails
  <2>8. CASE UNCHANGED ingestVars \/ UNCHANGED allVars
    BY <2>1, <2>8 DEF ingestVars, allVars, outboxVars
  <2> QED
    BY <2>1, <2>2, <2>3, <2>4, <2>5, <2>6, <2>7, <2>8 DEF IngestNext, Request
<1>2. /\ \A p \in Dispatcher : \A t \in todo'[p] : Known(t)'
      /\ \A p \in Dispatcher :
           sending'[p] # NoTask => \E i \in 1..Len(log') : log'[i] = sending'[p]
  <2>a. \A i \in 1..Len(log) : i \in 1..Len(log') /\ log'[i] = log[i]
    BY LogFacts
  <2>1. CASE UNCHANGED <<todo, sending>>
    <3>1. \A p \in Dispatcher : \A t \in todo'[p] : Known(t)'
      BY <1>a, <1>b, <2>1 DEF KnownInv
    <3>2. ASSUME NEW p \in Dispatcher, sending'[p] # NoTask
          PROVE  \E i \in 1..Len(log') : log'[i] = sending'[p]
      BY <2>1, <2>a, <3>2 DEF KnownInv
    <3> QED
      BY <3>1, <3>2
  <2>2. ASSUME NEW p \in Dispatcher, FlushStep(p)
        PROVE  /\ \A q \in Dispatcher : \A t \in todo'[q] : Known(t)'
               /\ \A q \in Dispatcher :
                    sending'[q] # NoTask => \E i \in 1..Len(log') : log'[i] = sending'[q]
    <3>1. CASE Flush(p)
      <4>1. PICK S \in SUBSET unpublished : todo' = [todo EXCEPT ![p] = S]
        BY <3>1 DEF Flush
      <4>2. \A q \in Dispatcher : todo'[q] = todo[q] \/ todo'[q] = S
        BY <1>b, <4>1
      <4>3. \A q \in Dispatcher : \A t \in todo'[q] : Known(t)'
        BY <1>a, <1>b, <4>2 DEF KnownInv
      <4>4. sending' = sending
        BY <3>1 DEF Flush
      <4> QED
        BY <2>a, <4>3, <4>4 DEF KnownInv
    <3>2. CASE PublishTask(p)
      <4>1. PICK t \in todo[p] : Publish(t) /\ sending' = [sending EXCEPT ![p] = t]
        BY <3>2 DEF PublishTask
      <4>2. todo' = todo
        BY <3>2 DEF PublishTask
      <4>3. \A q \in Dispatcher : \A u \in todo'[q] : Known(u)'
        BY <1>a, <1>b, <4>2 DEF KnownInv
      <4>4. t \in Envelope /\ log' = Append(log, t)
        BY <1>b, <4>1 DEF Publish, Add
      <4>5. Len(log) + 1 \in 1..Len(log') /\ log'[Len(log) + 1] = t
        BY <1>b, <4>4
      <4>6. \A q \in Dispatcher : sending'[q] = sending[q] \/ sending'[q] = t
        BY <4>1
      <4> QED
        BY <2>a, <4>3, <4>5, <4>6 DEF KnownInv
    <3>3. CASE PublishRaises(p) \/ MarkPublished(p) \/ FlushFails(p)
      <4>1. \E S \in SUBSET todo[p] : todo' = [todo EXCEPT ![p] = S]
        <5>1. CASE PublishRaises(p)
          BY <5>1 DEF PublishRaises
        <5>2. CASE MarkPublished(p)
          BY <5>2 DEF MarkPublished
        <5>3. CASE FlushFails(p)
          BY <5>3 DEF FlushFails
        <5> QED
          BY <3>3, <5>1, <5>2, <5>3
      <4>2. \A q \in Dispatcher : sending'[q] = sending[q] \/ sending'[q] = NoTask
        <5>1. sending' = sending \/ sending' = [sending EXCEPT ![p] = NoTask]
          BY <3>3 DEF PublishRaises, MarkPublished, FlushFails
        <5> QED
          BY <1>b, <5>1
      <4>3. \A q \in Dispatcher : \A u \in todo'[q] : Known(u)'
        BY <1>a, <1>b, <4>1 DEF KnownInv
      <4> QED
        BY <2>a, <4>2, <4>3 DEF KnownInv
    <3> QED
      BY <2>2, <3>1, <3>2, <3>3 DEF FlushStep
  <2>3. ASSUME NEW c \in Consumer, IngestStep(c) \/ LoopStep(c) \/ Crash(c)
        PROVE  UNCHANGED <<todo, sending>>
    BY <2>3 DEF IngestStep, LoopStep, Crash, Dispatch, ClaimAcquired, ClaimMisses, ClaimBusy, ClaimTerminal,
       Complete, Fail, outboxVars, ingestVars
  <2>4. ASSUME NEW d \in Document, Request(d) \/ LeaseExpires(d) PROVE UNCHANGED <<todo, sending>>
    BY <2>4 DEF Request, Upload, UploadAgain, Requeue, Delete, LeaseExpires, outboxVars
  <2>5. CASE UNCHANGED ingestVars \/ UNCHANGED allVars
    BY <2>1, <2>5 DEF ingestVars, allVars, outboxVars
  <2> QED
    BY <2>1, <2>2, <2>3, <2>4, <2>5 DEF IngestNext
<1>3. (\A i \in 1..Len(log) : Known(log[i]))'
  <2> SUFFICES ASSUME NEW i \in 1..Len(log') PROVE Known(log[i])'
    OBVIOUS
  <2>1. \E t \in Envelope : Known(t) /\ t = log'[i]
    <3>1. CASE i \in 1..Len(log)
      BY <3>1, LogFacts DEF KnownInv
    <3>2. CASE i \notin 1..Len(log)
      <4>1. Len(log') = Len(log) + 1 /\ i = Len(log) + 1
        BY <3>2, LogFacts
      <4>2. /\ log'[i] \in Envelope
            /\ (\E p \in Dispatcher : log'[i] \in todo[p]) \/ dead[log'[i]] > 0
        BY <4>1, LogFacts
      <4> QED
        BY <4>2 DEF KnownInv
    <3> QED
      BY <3>1, <3>2
  <2>2. PICK t \in Envelope : Known(t) /\ t = log'[i]
    BY <2>1
  <2>3. Known(t)'
    BY <1>a, <2>2
  <2> QED
    BY <2>2, <2>3 DEF Known
<1>4. \A t \in Envelope : dead'[t] > 0 => Known(t)'
  <2>1. ASSUME NEW t \in Envelope, dead'[t] > 0 PROVE Known(t)
    <3>1. CASE dead' = dead
      BY <2>1, <3>1 DEF KnownInv
    <3>2. ASSUME NEW e \in Envelope, ReplayDeadLetter(e) PROVE dead[t] > 0
      BY <1>b, <2>1, <3>2 DEF ReplayDeadLetter
    <3>3. ASSUME NEW c \in Consumer, Bury(c) PROVE Known(t)
      <4>1. cur[c] \in 1..Len(log) /\ dead' = [dead EXCEPT ![log[cur[c]]] = @ + 1]
        BY <3>3, CurrentEntry DEF Bury
      <4>2. CASE t = log[cur[c]]
        BY <4>1, <4>2 DEF KnownInv
      <4>3. CASE t # log[cur[c]]
        BY <1>b, <2>1, <4>1, <4>3 DEF KnownInv
      <4> QED
        BY <4>2, <4>3
    <3>4. [Next]_vars
      BY IngestStepImplements
    <3>5. dead' = dead \/ (\E e \in Envelope : ReplayDeadLetter(e)) \/ (\E c \in Consumer : Bury(c))
      <4>1. ASSUME NEW e \in Envelope, Publish(e) \/ OnceExpires(e) PROVE dead' = dead
        BY <4>1 DEF Publish, OnceExpires
      <4>2. ASSUME NEW c \in Consumer, ConsumerStep(c) \/ IterationFails(c), ~Bury(c)
            PROVE  dead' = dead
        BY <4>2 DEF ConsumerStep, ClaimStale, TakeStale, ReadNew, TakeFresh, EndIteration,
           CheckOnce, HandlerSucceeds, HandlerFails, MarkOnce, Ack, IterationFails, streamVars
      <4>3. ASSUME NEW i \in EntryId, BecomesStale(i) PROVE dead' = dead
        BY <4>3 DEF BecomesStale
      <4>4. CASE UNCHANGED vars
        BY <4>4 DEF vars, streamVars
      <4> QED
        BY <3>4, <4>1, <4>2, <4>3, <4>4 DEF Next
    <3> QED
      BY <3>1, <3>2, <3>3, <3>5 DEF KnownInv
  <2> QED
    BY <1>a, <2>1
<1> QED
  BY <1>1, <1>2, <1>3, <1>4 DEF KnownInv

\* Two workers at the current generation of one document have the same task.
LEMMA SameTask ==
  ASSUME TypeOK, PlaceInv, NEW c \in Consumer, NEW b \in Consumer,
         step[c] # "idle", step[b] # "idle", Current(c), Current(b), Doc(c) = Doc(b)
  PROVE  Task(c) = Task(b)
<1>1. Task(c) \in Envelope /\ Task(b) \in Envelope
  BY WorkFacts
<1>2. Task(c)[1] = Task(b)[1] /\ Task(c)[2] = Task(b)[2]
  BY DEF Current, Doc
<1> QED
  BY <1>1, <1>2, TaskFacts

\* A worker keeps its task until it is done with it, and only a claim makes a
\* new one.
LEMMA WorkersKept ==
  ASSUME TypeOK, PlaceInv, DocumentInv, KnownInv, [IngestNext]_allVars,
         NEW c \in Consumer, step'[c] \in {"look", "work"}
  PROVE  /\ step[c] # "idle" /\ cur'[c] = cur[c] /\ Task(c)' = Task(c) /\ Doc(c)' = Doc(c)
         /\ \/ step[c] = step'[c]
            \/ ClaimAcquired(c) \/ (ClaimMisses(c) /\ step'[c] = "look")
<1>a. /\ step \in [Consumer -> {"idle", "claim", "look", "work"}] /\ cur \in [Consumer -> EntryId \cup {0}]
      /\ \A b \in Consumer : step[b] = "idle" <=> pc[b] # "handler"
  BY DEF PlaceInv, TypeOK, ConsumerType
<1>1. ASSUME step[c] # "idle", cur'[c] = cur[c]
      PROVE  Task(c)' = Task(c) /\ Doc(c)' = Doc(c)
  <2>1. cur[c] \in 1..Len(log)
    BY <1>1, WorkFacts
  <2>2. log'[cur[c]] = log[cur[c]]
    BY <2>1, LogFacts
  <2> QED
    BY <1>1, <2>2 DEF Task, Doc
<1>2. /\ step[c] # "idle" /\ cur'[c] = cur[c]
      /\ step[c] = step'[c] \/ ClaimAcquired(c) \/ (ClaimMisses(c) /\ step'[c] = "look")
  <2>1. ASSUME NEW b \in Consumer, IngestStep(b)
        PROVE  /\ step[c] # "idle" /\ cur'[c] = cur[c]
               /\ step[c] = step'[c] \/ ClaimAcquired(c) \/ (ClaimMisses(c) /\ step'[c] = "look")
    <3>1. CASE Dispatch(b)
      BY <1>a, <3>1 DEF Dispatch, CheckOnce
    <3>2. CASE ClaimAcquired(b) \/ ClaimMisses(b)
      <4>1. /\ step[b] = "claim" /\ cur' = cur
            /\ \/ ClaimAcquired(b)
               \/ ClaimMisses(b) /\ step' = [step EXCEPT ![b] = "look"]
        BY <3>2 DEF ClaimAcquired, ClaimMisses, vars, consumerVars
      <4>2. \E q \in {"look", "work"} : step' = [step EXCEPT ![b] = q]
        BY <3>2 DEF ClaimAcquired, ClaimMisses
      <4>3. CASE b = c
        BY <1>a, <4>1, <4>3
      <4>4. CASE b # c
        BY <1>a, <4>1, <4>2, <4>4
      <4> QED
        BY <4>3, <4>4
    <3>3. CASE ClaimBusy(b) \/ Fail(b)
      <4>1. step' = [step EXCEPT ![b] = "idle"] /\ cur' = [cur EXCEPT ![b] = 0]
        BY <3>3 DEF ClaimBusy, Fail, HandlerFails, Forget
      <4> QED
        BY <1>a, <4>1
    <3>4. CASE ClaimTerminal(b) \/ Complete(b)
      <4>1. step' = [step EXCEPT ![b] = "idle"] /\ cur' = cur
        BY <3>4 DEF ClaimTerminal, Complete, HandlerSucceeds
      <4> QED
        BY <1>a, <4>1
    <3> QED
      BY <2>1, <3>1, <3>2, <3>3, <3>4 DEF IngestStep
  <2>2. ASSUME NEW b \in Consumer, LoopStep(b) PROVE step[c] = step'[c] /\ cur'[c] = cur[c]
    <3>1. step' = step
      BY <2>2 DEF LoopStep, ingestVars
    <3>2. pc[b] # "handler" /\ (cur' = cur \/ \E j \in EntryId \cup {0} : cur' = [cur EXCEPT ![b] = j])
      <4>1. CASE ClaimStale(b) \/ ReadNew(b) \/ EndIteration(b) \/ Bury(b)
        BY <4>1 DEF ClaimStale, ReadNew, EndIteration, Bury
      <4>2. CASE Ack(b)
        BY <4>2 DEF Ack, Forget
      <4>3. CASE TakeStale(b) \/ TakeFresh(b)
        <5>1. batch[b] \subseteq 1..Len(log) /\ log \in Seq(Envelope) /\ Len(log) <= MaxEntry
          BY DEF TypeOK, ConsumerType, StreamType
        <5>2. \A j \in batch[b] : j \in EntryId
          BY <5>1, BoundAssumption DEF EntryId
        <5> QED
          BY <4>3, <5>2 DEF TakeStale, TakeFresh
      <4> QED
        BY <2>2, <4>1, <4>2, <4>3 DEF LoopStep
    <3> QED
      BY <1>a, <3>1, <3>2
  <2>3. ASSUME NEW b \in Consumer, Crash(b) PROVE step[c] = step'[c] /\ cur'[c] = cur[c]
    <3>1. step' = [step EXCEPT ![b] = "idle"] /\ cur' = [cur EXCEPT ![b] = 0]
      BY <2>3 DEF Crash, IterationFails, Forget
    <3> QED
      BY <1>a, <3>1
  <2>4. CASE UNCHANGED <<step, cur>>
    BY <2>4
  <2>5. ASSUME NEW p \in Dispatcher, FlushStep(p) PROVE UNCHANGED <<step, cur>>
    BY <2>5 DEF FlushStep, Flush, PublishTask, PublishRaises, MarkPublished, FlushFails,
       Publish, vars, consumerVars
  <2>6. ASSUME NEW d \in Document, Request(d) \/ LeaseExpires(d) PROVE UNCHANGED <<step, cur>>
    BY <2>6 DEF Request, Upload, UploadAgain, Requeue, Delete, LeaseExpires, vars, consumerVars
  <2>7. ASSUME NEW t \in Envelope, ReplayDeadLetter(t), UNCHANGED ingestVars
        PROVE  UNCHANGED <<step, cur>>
    BY <2>7 DEF ReplayDeadLetter, consumerVars, ingestVars
  <2>8. ASSUME NEW i \in EntryId, BecomesStale(i), UNCHANGED ingestVars
        PROVE  UNCHANGED <<step, cur>>
    BY <2>8 DEF BecomesStale, consumerVars, ingestVars
  <2>9. CASE UNCHANGED allVars
    BY <2>4, <2>9 DEF allVars, vars, consumerVars, ingestVars
  <2> QED
    BY <2>1, <2>2, <2>3, <2>4, <2>5, <2>6, <2>7, <2>8, <2>9 DEF IngestNext
<1> QED
  BY <1>1, <1>2

\* claim_ingestion takes the row lock, so the lease has one holder; only an
\* expiry under a worker lets a second one in.
LEMMA LeaseStep ==
  ASSUME TypeOK, PlaceInv, DocumentInv, KnownInv, LeaseInv, [IngestNext]_allVars
  PROVE  LeaseInv'
<1> SUFFICES ASSUME stalls' = 0, NEW c \in Consumer, step'[c] = "work", Current(c)'
             PROVE  HoldsLease(c)'
  BY DEF LeaseInv
<1>a. /\ status \in [Document -> Status] /\ generation \in [Document -> 0..MaxGeneration]
      /\ step \in [Consumer -> {"idle", "claim", "look", "work"}] /\ stalls \in Nat
      /\ MaxGeneration \in Nat
  BY DEF DocumentInv, DocumentType, PlaceInv
<1>b. /\ step[c] # "idle" /\ Task(c)' = Task(c) /\ Doc(c)' = Doc(c)
      /\ Doc(c) \in Document /\ Task(c)[2] \in Nat /\ Task(c) \in Envelope
      /\ ~ClaimAcquired(c) => step[c] = "work"
  BY WorkersKept, WorkFacts
<1>c. \A b \in Consumer : step'[b] = "work" => Task(b)' = Task(b) /\ step[b] # "idle"
  BY WorkersKept
<1>d. stalls = 0 /\ generation[Doc(c)] \in Nat
  <2>1. Known(Task(c))
    BY <1>b, WorkFacts DEF KnownInv, Task
  <2> QED
    BY <1>a, <1>b, <2>1, KnownStays
<1>e. status[Doc(c)] # "absent" /\ Task(c)[2] <= generation[Doc(c)]
  BY <1>b, WorkFacts DEF KnownInv, Task, Doc, Known
<1>f. status'[Doc(c)] \notin {"absent", "gone"} /\ generation'[Doc(c)] = Task(c)[2]
  BY <1>b DEF Current, Present
<1>1. ASSUME ~\E b \in Consumer : ClaimAcquired(b), Current(c),
             status'[Doc(c)] = status[Doc(c)], Doc(c) \in expired' => Doc(c) \in expired
      PROVE  HoldsLease(c)'
  <2>1. step[c] = "work" /\ HoldsLease(c)
    BY <1>b, <1>d, <1>1 DEF LeaseInv
  <2>2. \A b \in Consumer : step'[b] = "work" => step[b] = "work"
    BY <1>1, WorkersKept
  <2> QED
    BY <1>1, <1>b, <1>c, <2>1, <2>2 DEF HoldsLease
<1>2. ASSUME UNCHANGED <<status, generation, expired>>, ~\E b \in Consumer : ClaimAcquired(b)
      PROVE  HoldsLease(c)'
  <2>1. Current(c)
    BY <1>2, <1>b, <1>f DEF Current, Present
  <2> QED
    BY <1>1, <1>2, <2>1
<1>3. ASSUME NEW a \in Consumer, ClaimAcquired(a) PROVE HoldsLease(c)'
  <2>1. /\ step[a] = "claim" /\ Current(a) /\ status' = [status EXCEPT ![Doc(a)] = "PROCESSING"]
        /\ expired' = expired \ {Doc(a)} /\ generation' = generation
        /\ step' = [step EXCEPT ![a] = "work"]
        /\ status[Doc(a)] = "PROCESSING" => Doc(a) \in expired
        /\ status[Doc(a)] \notin {"absent", "gone"}
    BY <1>3 DEF ClaimAcquired, Claimable, Current, Present
  <2>a. Doc(a) \in Document
    BY <2>1, WorkFacts
  <2>2. ASSUME NEW b \in Consumer, step[b] = "work", Current(b) PROVE Doc(b) # Doc(a)
    <3>1. status[Doc(b)] = "PROCESSING" /\ Doc(b) \notin expired
      BY <1>d, <2>2 DEF LeaseInv, HoldsLease
    <3> QED
      BY <2>1, <3>1
  <2>3. CASE c = a
    <3>1. ASSUME NEW b \in Consumer \ {a}, step'[b] = "work" PROVE Task(b)' # Task(a)
      <4>1. step[b] = "work" /\ Task(b)' = Task(b)
        BY <1>a, <1>c, <2>1, <3>1
      <4>2. Task(b) = Task(a) => Current(b) /\ Doc(b) = Doc(a)
        BY <2>1 DEF Current, Doc
      <4> QED
        BY <2>2, <4>1, <4>2
    <3> QED
      BY <1>a, <1>b, <2>1, <2>a, <2>3, <3>1 DEF HoldsLease
  <2>4. CASE c # a
    <3>1. step[c] = "work"
      BY <1>a, <2>1, <2>4
    <3>2. Current(c)
      <4>1. status[Doc(c)] = status'[Doc(c)] \/ Doc(c) = Doc(a)
        BY <1>a, <2>1
      <4> QED
        BY <1>f, <2>1, <4>1 DEF Current, Present
    <3>3. Doc(c) # Doc(a) /\ HoldsLease(c)
      BY <1>d, <2>2, <3>1, <3>2 DEF LeaseInv
    <3>4. ASSUME NEW b \in Consumer \ {c}, step'[b] = "work" PROVE Task(b)' # Task(c)'
      <4>1. CASE b = a
        BY <1>b, <1>c, <3>3, <3>4, <4>1 DEF Doc
      <4>2. CASE b # a
        <5>1. step[b] = "work"
          BY <1>a, <2>1, <3>4, <4>2
        <5> QED
          BY <1>b, <1>c, <3>3, <3>4, <5>1 DEF HoldsLease
      <4> QED
        BY <4>1, <4>2
    <3>5. status'[Doc(c)] = "PROCESSING" /\ Doc(c) \notin expired'
      BY <1>a, <2>1, <3>3 DEF HoldsLease
    <3> QED
      BY <1>b, <3>4, <3>5 DEF HoldsLease
  <2> QED
    BY <2>3, <2>4
<1>4. ASSUME NEW a \in Consumer, Complete(a) \/ Fail(a) PROVE HoldsLease(c)'
  <2>1. /\ step[a] = "work" /\ step' = [step EXCEPT ![a] = "idle"] /\ generation' = generation
        /\ expired' \subseteq expired
        /\ \/ UNCHANGED <<status, expired>>
           \/ /\ Current(a)
              /\ \E s \in {"READY", "FAILED"} : status' = [status EXCEPT ![Doc(a)] = s]
    BY <1>4 DEF Complete, Fail
  <2>2. ~\E b \in Consumer : ClaimAcquired(b)
    BY <1>a, <2>1 DEF ClaimAcquired
  <2>3. CASE UNCHANGED <<status, expired>>
    BY <1>2, <2>1, <2>2, <2>3
  <2>4. CASE Current(a) /\ \E s \in {"READY", "FAILED"} : status' = [status EXCEPT ![Doc(a)] = s]
    <3>1. c # a /\ step[c] = "work" /\ HoldsLease(a)
      BY <1>a, <1>b, <1>d, <2>1, <2>2, <2>4 DEF LeaseInv
    <3>2. CASE Doc(c) = Doc(a)
      <4>1. Current(c)
        BY <1>f, <2>1, <2>4, <3>2 DEF Current, Present
      <4>2. Task(c) = Task(a)
        BY <2>1, <2>4, <3>1, <3>2, <4>1, SameTask
      <4> QED
        BY <3>1, <4>2 DEF HoldsLease
    <3>3. CASE Doc(c) # Doc(a)
      <4>1. status'[Doc(c)] = status[Doc(c)]
        BY <1>a, <1>b, <2>4, <3>3
      <4>2. Current(c)
        BY <1>f, <2>1, <4>1 DEF Current, Present
      <4> QED
        BY <1>1, <2>1, <2>2, <4>1, <4>2
    <3> QED
      BY <3>2, <3>3
  <2> QED
    BY <2>1, <2>3, <2>4
<1>5. ASSUME NEW d \in Document, Request(d) PROVE HoldsLease(c)'
  <2>1. ~\E b \in Consumer : ClaimAcquired(b)
    <3>1. step' = step
      BY <1>5 DEF Request, Upload, UploadAgain, Requeue, Delete
    <3> QED
      BY <1>a, <3>1 DEF ClaimAcquired
  <2>2. ASSUME Doc(c) # d PROVE HoldsLease(c)'
    <3>1. /\ status'[Doc(c)] = status[Doc(c)] /\ generation'[Doc(c)] = generation[Doc(c)]
          /\ expired' \subseteq expired
      BY <1>a, <1>b, <1>5, <2>2 DEF Request, Upload, UploadAgain, Requeue, Delete, documentVars
    <3>2. Current(c)
      BY <1>f, <3>1 DEF Current, Present
    <3> QED
      BY <1>1, <2>1, <3>1, <3>2
  <2>3. CASE Upload(d)
    BY <1>e, <2>2, <2>3 DEF Upload
  <2>4. CASE UploadAgain(d)
    BY <1>2, <2>1, <2>4 DEF UploadAgain, documentVars
  <2>5. CASE Requeue(d)
    <3>1. CASE Doc(c) = d
      <4>1. generation'[d] = generation[d] + 1
        BY <1>a, <2>5 DEF Requeue
      <4> QED
        BY <1>b, <1>d, <1>e, <1>f, <3>1, <4>1
    <3> QED
      BY <2>2, <3>1
  <2>6. CASE Delete(d)
    <3>1. CASE Doc(c) = d
      <4>1. status'[d] = "gone"
        BY <1>a, <2>6 DEF Delete
      <4> QED
        BY <1>b, <1>f, <3>1, <4>1 DEF Present
    <3> QED
      BY <2>2, <3>1
  <2> QED
    BY <1>5, <2>3, <2>4, <2>5, <2>6 DEF Request
<1>6. ASSUME NEW d \in Document, LeaseExpires(d) PROVE HoldsLease(c)'
  <2>1. /\ UNCHANGED <<status, generation, step>> /\ expired' = expired \cup {d}
        /\ stalls' = stalls + 1
             \/ ~\E b \in Consumer : step[b] = "work" /\ Task(b) = <<d, generation[d]>>
    BY <1>6 DEF LeaseExpires
  <2>2. ~\E b \in Consumer : ClaimAcquired(b)
    BY <1>a, <2>1 DEF ClaimAcquired
  <2>3. ~\E b \in Consumer : step[b] = "work" /\ Task(b) = <<d, generation[d]>>
    BY <1>a, <2>1
  <2>4. Current(c) /\ step[c] = "work"
    BY <1>b, <1>f, <2>1, <2>2 DEF Current, Present
  <2>5. Doc(c) # d
    <3>1. Task(c) = <<Doc(c), generation[Doc(c)]>>
      BY <1>b, <2>4, TaskFacts DEF Current, Doc
    <3> QED
      BY <2>3, <2>4, <3>1
  <2> QED
    BY <1>1, <2>1, <2>2, <2>4, <2>5
<1>7. ASSUME UNCHANGED <<status, generation, expired, step>> PROVE HoldsLease(c)'
  <2>1. ~\E b \in Consumer : ClaimAcquired(b)
    BY <1>a, <1>7 DEF ClaimAcquired
  <2> QED
    BY <1>2, <1>7, <2>1
<1>8. ASSUME NEW b \in Consumer, Dispatch(b) \/ ClaimMisses(b) \/ ClaimBusy(b) \/ ClaimTerminal(b) \/ Crash(b)
      PROVE  HoldsLease(c)'
  <2>1. /\ UNCHANGED <<status, generation, expired>>
        /\ \E s \in {"claim", "look", "idle"} : step' = [step EXCEPT ![b] = s]
    BY <1>8 DEF Dispatch, ClaimMisses, ClaimBusy, ClaimTerminal, Crash, documentVars
  <2>2. ~\E a \in Consumer : ClaimAcquired(a)
    BY <1>a, <2>1 DEF ClaimAcquired
  <2> QED
    BY <1>2, <2>1, <2>2
<1>9. ASSUME NEW b \in Consumer, LoopStep(b) PROVE HoldsLease(c)'
  BY <1>7, <1>9 DEF LoopStep, ingestVars, documentVars
<1>10. ASSUME NEW p \in Dispatcher, FlushStep(p) PROVE HoldsLease(c)'
  BY <1>7, <1>10 DEF FlushStep, Flush, PublishTask, PublishRaises, MarkPublished, FlushFails,
     documentVars
<1>11. CASE UNCHANGED ingestVars \/ UNCHANGED allVars
  BY <1>7, <1>11 DEF allVars, ingestVars, documentVars
<1> QED
  BY <1>3, <1>4, <1>5, <1>6, <1>8, <1>9, <1>10, <1>11 DEF IngestNext, IngestStep

\* Once a claim has looked at a document, it was taken, is over or has moved on:
\* only an upload or the next generation makes it QUEUED.
LEMMA BegunStep ==
  ASSUME TypeOK, PlaceInv, DocumentInv, KnownInv, LeaseInv, BegunInv, [IngestNext]_allVars
  PROVE  BegunInv'
<1> SUFFICES ASSUME NEW c \in Consumer, step'[c] \in {"look", "work"}, Current(c)',
                    status'[Doc(c)'] = "QUEUED"
             PROVE  FALSE
  BY DEF BegunInv
<1>1. /\ step[c] # "idle" /\ Task(c)' = Task(c) /\ Doc(c)' = Doc(c)
      /\ \/ step[c] \in {"look", "work"}
         \/ ClaimAcquired(c) \/ ClaimMisses(c)
  BY WorkersKept
<1>2. Doc(c) \in Document /\ Task(c)[2] \in Nat /\ Known(Task(c))
  BY <1>1, WorkFacts DEF KnownInv, Task
<1>3. generation'[Doc(c)] = Task(c)[2] /\ status'[Doc(c)] = "QUEUED"
  BY <1>1 DEF Current
<1>4. status[Doc(c)] # "absent" /\ Task(c)[2] <= generation[Doc(c)]
  BY <1>2 DEF Known, Doc
<1>5. /\ generation[Doc(c)] \in Nat /\ generation[Doc(c)] <= generation'[Doc(c)]
      /\ generation'[Doc(c)] = generation[Doc(c)] => status[Doc(c)] = "QUEUED"
  BY <1>2, <1>3, <1>4, RowFacts
<1>6. generation[Doc(c)] = Task(c)[2] /\ status[Doc(c)] = "QUEUED"
  BY <1>2, <1>3, <1>4, <1>5
<1>7. Current(c)
  BY <1>6 DEF Current, Present
<1>8. CASE step[c] \in {"look", "work"}
  BY <1>6, <1>7, <1>8 DEF BegunInv
<1>9. CASE ClaimAcquired(c)
  <2>1. status' = [status EXCEPT ![Doc(c)] = "PROCESSING"] /\ status \in [Document -> Status]
    BY <1>9 DEF ClaimAcquired, DocumentInv, DocumentType
  <2> QED
    BY <1>2, <1>3, <2>1
<1>10. CASE ClaimMisses(c)
  BY <1>6, <1>7, <1>10 DEF ClaimMisses, Claimable
<1> QED
  BY <1>1, <1>8, <1>9, <1>10

\* A row leaves the outbox only after its task is in the stream, or with its
\* document.
LEMMA OutboxStep ==
  ASSUME TypeOK, PlaceInv, DocumentInv, KnownInv, LeaseInv, OutboxInv, [IngestNext]_allVars
  PROVE  OutboxInv'
<1>a. /\ status \in [Document -> Status] /\ generation \in [Document -> 0..MaxGeneration]
      /\ MaxGeneration \in Nat /\ unpublished \subseteq Envelope
      /\ step \in [Consumer -> {"idle", "claim", "look", "work"}]
  BY DEF DocumentInv, DocumentType, PlaceInv
<1>b. \A i \in 1..Len(log) : i \in 1..Len(log') /\ log'[i] = log[i]
  BY LogFacts
<1> SUFFICES ASSUME NEW d \in Document, status'[d] \in {"QUEUED", "PROCESSING", "FAILED"}
             PROVE  \/ <<d, generation'[d]>> \in unpublished'
                    \/ \E i \in 1..Len(log') : log'[i] = <<d, generation'[d]>>
  BY DEF OutboxInv, Waiting
<1> DEFINE Goal == \/ <<d, generation'[d]>> \in unpublished'
                   \/ \E i \in 1..Len(log') : log'[i] = <<d, generation'[d]>>
<1>1. ASSUME generation'[d] = generation[d], status[d] \in {"QUEUED", "PROCESSING", "FAILED"},
             \/ unpublished \subseteq unpublished'
             \/ <<d, generation[d]>> \in unpublished => <<d, generation[d]>> \in unpublished'
             \/ \E i \in 1..Len(log) : log[i] = <<d, generation[d]>>
      PROVE  Goal
  <2>1. \/ <<d, generation[d]>> \in unpublished
        \/ \E i \in 1..Len(log) : log[i] = <<d, generation[d]>>
    BY <1>1 DEF OutboxInv, Waiting
  <2> QED
    BY <1>1, <1>b, <2>1
<1>2. ASSUME NEW e \in Document, Request(e) PROVE Goal
  <2>1. CASE e # d /\ (Upload(e) \/ Requeue(e))
    <3>1. /\ status'[d] = status[d] /\ generation'[d] = generation[d]
          /\ unpublished \subseteq unpublished'
      BY <1>a, <2>1 DEF Upload, Requeue
    <3> QED
      BY <1>1, <3>1
  <2>2. CASE UploadAgain(e)
    BY <1>1, <2>2 DEF UploadAgain, documentVars
  <2>3. CASE Delete(e)
    <3>1. /\ status' = [status EXCEPT ![e] = "gone"] /\ generation' = generation
          /\ unpublished' = {t \in unpublished : t[1] # e}
      BY <2>3 DEF Delete
    <3>2. d # e /\ status'[d] = status[d]
      BY <1>a, <3>1
    <3> QED
      BY <1>1, <3>1, <3>2
  <2>4. CASE Upload(d)
    <3>1. unpublished' = unpublished \cup {<<d, 1>>} /\ generation'[d] = 1
      BY <1>a, <2>4 DEF Upload
    <3> QED
      BY <3>1
  <2>5. CASE Requeue(d)
    <3>1. /\ unpublished' = unpublished \cup {<<d, generation[d] + 1>>}
          /\ generation'[d] = generation[d] + 1
      BY <1>a, <2>5 DEF Requeue
    <3> QED
      BY <3>1
  <2> QED
    BY <1>2, <2>1, <2>2, <2>3, <2>4, <2>5 DEF Request
<1>3. ASSUME NEW c \in Consumer, IngestStep(c) PROVE Goal
  <2>1. generation' = generation /\ unpublished' = unpublished
    BY <1>3 DEF IngestStep, Dispatch, ClaimAcquired, ClaimMisses, ClaimBusy, ClaimTerminal, Complete, Fail,
       documentVars, outboxVars
  <2>2. CASE status[d] \in {"QUEUED", "PROCESSING", "FAILED"}
    BY <1>1, <2>1, <2>2
  <2>3. CASE status[d] \notin {"QUEUED", "PROCESSING", "FAILED"}
    <3>1. step[c] # "idle" /\ Current(c) /\ Doc(c) = d
      <4>1. CASE Dispatch(c) \/ ClaimMisses(c) \/ ClaimBusy(c) \/ ClaimTerminal(c)
        BY <2>3, <4>1 DEF Dispatch, ClaimMisses, ClaimBusy, ClaimTerminal, documentVars
      <4>2. CASE ClaimAcquired(c) \/ Complete(c)
        BY <1>a, <2>3, <4>2 DEF ClaimAcquired, Claimable, Complete
      <4>3. CASE Fail(c)
        BY <1>a, <2>3, <4>3 DEF Fail
      <4> QED
        BY <1>3, <4>1, <4>2, <4>3 DEF IngestStep
    <3>2. cur[c] \in 1..Len(log) /\ Task(c) \in Envelope
      BY <3>1, WorkFacts
    <3>3. Task(c) = <<d, generation[d]>>
      BY <3>1, <3>2, TaskFacts DEF Current, Doc
    <3> QED
      BY <1>b, <2>1, <3>2, <3>3 DEF Task
  <2> QED
    BY <2>2, <2>3
<1>4. ASSUME UNCHANGED <<status, generation, unpublished>> PROVE Goal
  BY <1>1, <1>4
<1>5. ASSUME NEW p \in Dispatcher, FlushStep(p) PROVE Goal
  <2>1. CASE MarkPublished(p)
    <3>1. /\ UNCHANGED <<status, generation>> /\ sending[p] # NoTask
          /\ unpublished' = unpublished \ {sending[p]}
      BY <2>1 DEF MarkPublished, documentVars
    <3>2. \E i \in 1..Len(log) : log[i] = sending[p]
      BY <3>1 DEF KnownInv
    <3> QED
      BY <1>1, <3>1, <3>2
  <2>2. CASE Flush(p) \/ PublishTask(p) \/ PublishRaises(p) \/ FlushFails(p)
    BY <1>4, <2>2 DEF Flush, PublishTask, PublishRaises, FlushFails, documentVars
  <2> QED
    BY <1>5, <2>1, <2>2 DEF FlushStep
<1>6. ASSUME NEW c \in Consumer, LoopStep(c) \/ Crash(c) PROVE Goal
  BY <1>4, <1>6 DEF LoopStep, Crash, ingestVars, documentVars, outboxVars
<1>7. ASSUME NEW e \in Document, LeaseExpires(e) PROVE Goal
  BY <1>4, <1>7 DEF LeaseExpires, outboxVars
<1>8. CASE UNCHANGED ingestVars \/ UNCHANGED allVars
  BY <1>4, <1>8 DEF ingestVars, allVars, documentVars, outboxVars
<1> QED
  BY <1>2, <1>3, <1>5, <1>6, <1>7, <1>8 DEF IngestNext

\* Only its own ack settles an entry.
LEMMA UnsettledKept ==
  ASSUME StreamInv, [Next]_vars, NEW k \in 1..Len(log), Unsettled(k)
  PROVE  Unsettled(k)' \/ \E c \in Consumer : Ack(c) /\ cur[c] = k
<1>a. /\ StreamType /\ last \in Nat /\ k \in Nat /\ k \in EntryId /\ k # Len(log) + 1
      /\ pending[k] \in Nat
  <2>1. /\ StreamType /\ log \in Seq(Envelope) /\ Len(log) \in Nat /\ Len(log) <= MaxEntry
    BY DEF StreamInv, TypeOK, StreamType
  <2>2. k \in EntryId
    BY <2>1, BoundAssumption DEF EntryId
  <2>3. pending[k] \in Nat
    BY <2>1, <2>2, LimitAssumption DEF StreamType, CountCap
  <2>4. last \in Nat
    BY <2>1 DEF StreamType
  <2> QED
    BY <2>1, <2>2, <2>3, <2>4
<1>1. ASSUME NEW e \in Envelope, Publish(e) \/ ReplayDeadLetter(e) PROVE Unsettled(k)'
  <2>1. Add(e) /\ UNCHANGED <<last, pending>>
    BY <1>1 DEF Publish, ReplayDeadLetter
  <2>2. \A i \in live' : i \in live \/ i = Len(log) + 1
    BY <1>a, <2>1, AddFacts
  <2> QED
    BY <1>a, <2>1, <2>2 DEF Unsettled
<1>2. ASSUME NEW i \in EntryId, BecomesStale(i) PROVE Unsettled(k)'
  BY <1>2 DEF BecomesStale, Unsettled
<1>3. ASSUME NEW c \in Consumer, ClaimStale(c) PROVE Unsettled(k)'
  <2>1. UNCHANGED <<last, live>>
    BY <1>3 DEF ClaimStale
  <2>2. pending'[k] = 0 => pending[k] = 0 \/ k \notin live
    BY <1>3, <1>a, ClaimFacts
  <2>3. pending'[k] \in Nat
    <3>1. pending' \in [EntryId -> 0..CountCap]
      BY NextType DEF StreamInv, TypeOK, StreamType
    <3> QED
      BY <1>a, <3>1, LimitAssumption DEF CountCap
  <2> QED
    BY <1>a, <2>1, <2>2, <2>3 DEF Unsettled
<1>4. ASSUME NEW c \in Consumer, ReadNew(c) PROVE Unsettled(k)'
  <2>1. live' = live
    BY <1>4 DEF ReadNew
  <2>2. /\ k <= last => pending'[k] = pending[k]
        /\ k <= last' /\ k > last /\ k \in live => pending'[k] = 1
    BY <1>4, <1>a, ReadFacts
  <2>3. last' \in Nat
    BY NextType DEF StreamInv, TypeOK, StreamType
  <2>4. k > last \/ k <= last
    BY <1>a
  <2>5. k > last' \/ k <= last'
    BY <1>a, <2>3
  <2> QED
    BY <1>a, <2>1, <2>2, <2>4, <2>5 DEF Unsettled
<1>5. ASSUME NEW c \in Consumer, Ack(c), cur[c] # k PROVE Unsettled(k)'
  <2>1. UNCHANGED <<last, live>> /\ pending' = [pending EXCEPT ![cur[c]] = 0]
    BY <1>5 DEF Ack
  <2>2. pending'[k] = pending[k]
    BY <1>a, <1>5, <2>1 DEF StreamType
  <2> QED
    BY <2>1, <2>2 DEF Unsettled
<1>6. CASE UNCHANGED <<live, last, pending>>
  BY <1>6 DEF Unsettled
<1> QED
  BY <1>1, <1>2, <1>3, <1>4, <1>5, <1>6, StepKinds

\* A dead letter stays one until it is replayed, as the newest entry.
LEMMA DeadKept ==
  ASSUME StreamInv, [Next]_vars, NEW t \in Envelope, dead[t] > 0
  PROVE  \/ dead'[t] > 0
         \/ /\ Len(log') = Len(log) + 1 /\ log'[Len(log) + 1] = t /\ Len(log) \in Nat
            /\ Unsettled(Len(log))'
<1>a. /\ dead \in [Envelope -> Nat] /\ log \in Seq(Envelope) /\ Len(log) \in Nat
      /\ last \in 0..Len(log) /\ TypeOK
  <2>1. TypeOK
    BY DEF StreamInv
  <2>2. dead \in [Envelope -> Nat] /\ log \in Seq(Envelope) /\ last \in 0..Len(log)
    BY ONLY <2>1 DEF TypeOK, StreamType
  <2> QED
    BY <2>1, <2>2
<1>1. CASE dead' = dead
  BY <1>1
<1>2. ASSUME NEW e \in Envelope, ReplayDeadLetter(e)
      PROVE  \/ dead'[t] > 0
             \/ /\ Len(log') = Len(log) + 1 /\ log'[Len(log) + 1] = t /\ last' = last
  BY <1>a, <1>2 DEF ReplayDeadLetter, Add
<1>3. ASSUME NEW c \in Consumer, Bury(c) PROVE dead'[t] > 0
  <2>1. log[cur[c]] \in Envelope /\ dead' = [dead EXCEPT ![log[cur[c]]] = @ + 1]
    BY <1>a, <1>3, CurrentEntry DEF Bury
  <2> QED
    BY <1>a, <2>1
<1>4. ASSUME Len(log') = Len(log) + 1, last' = last PROVE Len(log') > last'
  BY <1>a, <1>4
<1>5. dead' = dead \/ (\E e \in Envelope : ReplayDeadLetter(e)) \/ (\E c \in Consumer : Bury(c))
  <2>1. ASSUME NEW e \in Envelope, Publish(e) \/ OnceExpires(e) PROVE dead' = dead
    BY <2>1 DEF Publish, OnceExpires
  <2>2. ASSUME NEW c \in Consumer, ConsumerStep(c) \/ IterationFails(c), ~Bury(c)
        PROVE  dead' = dead
    BY <2>2 DEF ConsumerStep, ClaimStale, TakeStale, ReadNew, TakeFresh, EndIteration,
       CheckOnce, HandlerSucceeds, HandlerFails, MarkOnce, Ack, IterationFails, streamVars
  <2>3. ASSUME NEW i \in EntryId, BecomesStale(i) PROVE dead' = dead
    BY <2>3 DEF BecomesStale
  <2>4. CASE UNCHANGED vars
    BY <2>4 DEF vars, streamVars
  <2> QED
    BY <2>1, <2>2, <2>3, <2>4 DEF Next
<1> QED
  BY <1>a, <1>1, <1>2, <1>3, <1>4, <1>5 DEF Unsettled

\* What covers a waited-for entry is replaced before it goes.
LEMMA CoverStays ==
  ASSUME IngestInv, [IngestNext]_allVars,
         NEW i \in 1..Len(log), NEW lo \in Nat, lo >= 1,
         Protected(log[i]), CoveredFrom(i, lo..Len(log)), lo <= Len(log) + 1
  PROVE  CoveredFrom(i, lo..Len(log))'
<1>a. /\ StreamInv /\ TypeOK /\ PlaceInv /\ DocumentInv /\ KnownInv /\ LeaseInv
      /\ BegunInv /\ CoverInv /\ [Next]_vars
  BY IngestStepImplements DEF IngestInv, StreamInv
<1>b. /\ Len(log) \in Nat /\ Len(log') \in Nat /\ Len(log) <= Len(log')
      /\ \A j \in 1..Len(log) : log'[j] = log[j] /\ log[j] \in Envelope
  BY <1>a, LogFacts
<1>c. log'[i] = log[i] /\ log[i] \in Envelope
  BY <1>b
<1>1. ASSUME dead[log[i]] > 0 PROVE CoveredFrom(i, lo..Len(log))'
  <2>1. CASE dead'[log[i]] > 0
    BY <1>c, <2>1 DEF CoveredFrom
  <2>2. CASE /\ Len(log') = Len(log) + 1 /\ log'[Len(log) + 1] = log[i]
             /\ Unsettled(Len(log))'
    <3>1. Len(log') \in lo..Len(log')
      BY <1>b, <2>2
    <3> QED
      BY <1>c, <2>2, <3>1 DEF CoveredFrom
  <2> QED
    BY <1>a, <1>c, <1>1, <2>1, <2>2, DeadKept
<1>2. ASSUME NEW k \in lo..Len(log), log[k] = log[i], Unsettled(k)'
      PROVE  CoveredFrom(i, lo..Len(log))'
  <2>1. k \in lo..Len(log') /\ log'[k] = log'[i]
    BY <1>b, <1>c, <1>2
  <2> QED
    BY <1>2, <2>1 DEF CoveredFrom
<1>3. ASSUME NEW k \in lo..Len(log), log[k] = log[i], Unsettled(k), ~Unsettled(k)'
      PROVE  CoveredFrom(i, lo..Len(log))'
  <2>1. k \in 1..Len(log)
    BY <1>b
  <2>2. PICK c \in Consumer : Ack(c) /\ cur[c] = k
    BY <1>a, <1>3, <2>1, UnsettledKept
  <2>3. CoveredFrom(k, (k + 1)..Len(log))
    BY <1>a, <1>c, <1>3, <2>2 DEF CoverInv, Ack
  <2>4. CASE dead[log[i]] > 0
    BY <1>1, <2>4
  <2>5. ASSUME NEW j \in (k + 1)..Len(log), log[j] = log[i], Unsettled(j)
        PROVE  CoveredFrom(i, lo..Len(log))'
    <3>1. j \in lo..Len(log) /\ j \in 1..Len(log) /\ j # k
      BY <1>b, <2>1, <2>5
    <3>2. Unsettled(j)'
      <4>1. UNCHANGED <<last, live>> /\ pending' = [pending EXCEPT ![k] = 0]
        BY <2>2 DEF Ack
      <4>2. j \in EntryId /\ pending \in [EntryId -> 0..CountCap]
        <5>1. StreamType /\ Len(log) <= MaxEntry
          BY <1>a DEF TypeOK, StreamType
        <5>2. j \in EntryId
          BY <1>b, <3>1, <5>1, BoundAssumption DEF EntryId
        <5> QED
          BY <5>1, <5>2 DEF StreamType
      <4>3. pending'[j] = pending[j]
        BY <3>1, <4>1, <4>2
      <4> QED
        BY <2>5, <4>1, <4>3 DEF Unsettled
    <3> QED
      BY <1>2, <2>5, <3>1, <3>2
  <2> QED
    BY <1>3, <2>3, <2>4, <2>5 DEF CoveredFrom
<1> QED
  BY <1>1, <1>2, <1>3 DEF CoveredFrom

\* A worker comes to ack an entry only through a burial, a terminal claim or a
\* completion.
LEMMA AckKinds ==
  ASSUME TypeOK, DocumentInv, [IngestNext]_allVars, NEW c \in Consumer, pc'[c] = "ack"
  PROVE  /\ cur'[c] = cur[c] /\ pc[c] \notin {"claim", "next"}
         /\ pc[c] = "ack" \/ Bury(c) \/ ClaimTerminal(c) \/ Complete(c)
<1>a. pc \in [Consumer -> PC] /\ cur \in [Consumer -> EntryId \cup {0}]
  BY DEF TypeOK, ConsumerType
<1>1. ASSUME NEW b \in Consumer, IngestStep(b)
      PROVE  /\ cur'[c] = cur[c] /\ pc[c] \notin {"claim", "next"}
             /\ pc[c] = "ack" \/ ClaimTerminal(c) \/ Complete(c)
  <2>1. CASE Dispatch(b)
    <3>1. pc' = [pc EXCEPT ![b] = "handler"] /\ cur' = cur
      BY <2>1 DEF Dispatch, CheckOnce
    <3> QED
      BY <1>a, <3>1
  <2>2. CASE ClaimAcquired(b) \/ ClaimMisses(b)
    BY <2>2 DEF ClaimAcquired, ClaimMisses, vars, consumerVars
  <2>3. CASE ClaimBusy(b) \/ Fail(b)
    <3>1. pc' = [pc EXCEPT ![b] = "next"] /\ cur' = [cur EXCEPT ![b] = 0]
      BY <2>3 DEF ClaimBusy, Fail, HandlerFails, Forget
    <3> QED
      BY <1>a, <3>1
  <2>4. CASE ClaimTerminal(b) \/ Complete(b)
    <3>1. pc[b] = "handler" /\ pc' = [pc EXCEPT ![b] = "ack"] /\ cur' = cur
      BY <2>4 DEF ClaimTerminal, Complete, HandlerSucceeds
    <3> QED
      BY <1>a, <2>4, <3>1
  <2> QED
    BY <1>1, <2>1, <2>2, <2>3, <2>4 DEF IngestStep
<1>2. ASSUME NEW b \in Consumer, LoopStep(b)
      PROVE  /\ cur'[c] = cur[c] /\ pc[c] \notin {"claim", "next"}
             /\ pc[c] = "ack" \/ Bury(c)
  <2>1. CASE ClaimStale(b) \/ ReadNew(b) \/ EndIteration(b)
    <3>1. cur' = cur /\ \E q \in {"next", "claim"} : pc' = [pc EXCEPT ![b] = q]
      BY <2>1 DEF ClaimStale, ReadNew, EndIteration
    <3> QED
      BY <1>a, <3>1
  <2>2. CASE TakeStale(b) \/ TakeFresh(b)
    <3>1. /\ \E q \in {"bury", "dedupe"} : pc' = [pc EXCEPT ![b] = q]
          /\ \E j \in batch[b] : cur' = [cur EXCEPT ![b] = j]
      BY <2>2 DEF TakeStale, TakeFresh
    <3> QED
      BY <1>a, <3>1
  <2>3. CASE Bury(b)
    <3>1. pc[b] = "bury" /\ pc' = [pc EXCEPT ![b] = "ack"] /\ cur' = cur
      BY <2>3 DEF Bury
    <3> QED
      BY <1>a, <2>3, <3>1
  <2>4. CASE Ack(b)
    <3>1. pc' = [pc EXCEPT ![b] = "next"] /\ cur' = [cur EXCEPT ![b] = 0]
      BY <2>4 DEF Ack, Forget
    <3> QED
      BY <1>a, <3>1
  <2> QED
    BY <1>2, <2>1, <2>2, <2>3, <2>4 DEF LoopStep
<1>3. ASSUME NEW b \in Consumer, Crash(b)
      PROVE  cur'[c] = cur[c] /\ pc[c] = "ack"
  <2>1. pc' = [pc EXCEPT ![b] = "claim"] /\ cur' = [cur EXCEPT ![b] = 0]
    BY <1>3 DEF Crash, IterationFails, Forget
  <2> QED
    BY <1>a, <2>1
<1>4. CASE UNCHANGED <<pc, cur>>
  BY <1>4
<1>5. ASSUME NEW p \in Dispatcher, FlushStep(p) PROVE UNCHANGED <<pc, cur>>
  BY <1>5 DEF FlushStep, Flush, PublishTask, PublishRaises, MarkPublished, FlushFails,
     Publish, vars, consumerVars
<1>6. ASSUME NEW d \in Document, Request(d) \/ LeaseExpires(d) PROVE UNCHANGED <<pc, cur>>
  BY <1>6 DEF Request, Upload, UploadAgain, Requeue, Delete, LeaseExpires, vars, consumerVars
<1>7. ASSUME NEW t \in Envelope, ReplayDeadLetter(t) PROVE UNCHANGED <<pc, cur>>
  BY <1>7 DEF ReplayDeadLetter, consumerVars
<1>8. ASSUME NEW i \in EntryId, BecomesStale(i) PROVE UNCHANGED <<pc, cur>>
  BY <1>8 DEF BecomesStale, consumerVars
<1>9. CASE UNCHANGED allVars
  BY <1>4, <1>9 DEF allVars, vars, consumerVars
<1> QED
  BY <1>1, <1>2, <1>3, <1>4, <1>5, <1>6, <1>7, <1>8, <1>9 DEF IngestNext

\* Neither a settled entry nor the one about to be acked leaves a waited-for
\* task behind.
LEMMA CoverStep ==
  ASSUME IngestInv, [IngestNext]_allVars
  PROVE  CoverInv'
<1>a. /\ StreamInv /\ TypeOK /\ PlaceInv /\ DocumentInv /\ KnownInv /\ LeaseInv
      /\ BegunInv /\ CoverInv /\ [Next]_vars
  BY IngestStepImplements DEF IngestInv, StreamInv
<1>b. /\ Len(log) \in Nat /\ Len(log') \in Nat /\ Len(log) <= Len(log')
      /\ Len(log') <= Len(log) + 1
      /\ \A j \in 1..Len(log) : log'[j] = log[j] /\ log[j] \in Envelope
  BY <1>a, LogFacts
<1>c. ASSUME NEW i \in 1..Len(log), Protected(log[i])' PROVE Protected(log[i])
  <2>1. PICK t \in Envelope : t = log[i] /\ t = log'[i]
    BY <1>b
  <2>2. Known(t) /\ Protected(t)'
    BY <1>a, <1>c, <2>1 DEF KnownInv, Protected, Waiting
  <2>3. Protected(t)
    BY <1>a, <2>2, KnownStays
  <2> QED
    BY <2>1, <2>3
<1>1. ASSUME NEW i \in 1..Len(log'), Protected(log[i])' PROVE CoveredFrom(i, i..Len(log))'
  <2>1. CASE i \in 1..Len(log)
    <3>1. Protected(log[i])
      BY <1>1, <1>c, <2>1
    <3>2. CoveredFrom(i, i..Len(log))
      BY <1>a, <2>1, <3>1 DEF CoverInv
    <3>3. i \in Nat /\ i >= 1 /\ i <= Len(log) + 1
      BY <1>b, <2>1
    <3> QED
      BY <2>1, <3>1, <3>2, <3>3, CoverStays
  <2>2. CASE i \notin 1..Len(log)
    <3>1. i = Len(log) + 1 /\ Len(log') = Len(log) + 1
      BY <1>b, <2>2
    <3>2. last' = last /\ last <= Len(log) /\ last \in Nat
      <4>1. \E e \in Envelope : Publish(e) \/ ReplayDeadLetter(e)
        BY <1>a, <1>b, <3>1, StepKinds DEF BecomesStale, ClaimStale, ReadNew, Ack
      <4>2. last \in 0..Len(log)
        BY <1>a DEF TypeOK, StreamType
      <4> QED
        BY <1>b, <4>1, <4>2 DEF Publish, ReplayDeadLetter
    <3>3. i > last'
      BY <1>b, <3>1, <3>2
    <3>4. i \in i..Len(log')
      BY <1>b, <3>1
    <3> QED
      BY <3>3, <3>4 DEF CoveredFrom, Unsettled
  <2> QED
    BY <2>1, <2>2
<1>2. ASSUME NEW c \in Consumer, pc'[c] = "ack", NEW i, i = cur[c], Protected(log[i])'
      PROVE  CoveredFrom(i, (i + 1)..Len(log))'
  <2>1. /\ pc[c] \notin {"claim", "next"}
        /\ pc[c] = "ack" \/ Bury(c) \/ ClaimTerminal(c) \/ Complete(c)
    BY <1>a, <1>2, AckKinds
  <2>2. i \in 1..Len(log) /\ log[i] \in Envelope
    BY <1>a, <1>2, <2>1, CurrentEntry
  <2>3. Protected(log[i]) /\ log'[i] = log[i]
    BY <1>2, <1>b, <1>c, <2>2
  <2>4. CASE pc[c] = "ack"
    <3>1. CoveredFrom(i, (i + 1)..Len(log))
      BY <1>a, <1>2, <2>3, <2>4 DEF CoverInv
    <3>2. i + 1 \in Nat /\ i + 1 >= 1 /\ i + 1 <= Len(log) + 1
      BY <1>b, <2>2
    <3> QED
      BY <2>2, <2>3, <3>1, <3>2, CoverStays
  <2>5. CASE Bury(c)
    <3>1. dead' = [dead EXCEPT ![log[i]] = @ + 1] /\ dead \in [Envelope -> Nat]
      BY <1>2, <1>a, <2>5 DEF Bury, TypeOK, StreamType
    <3>2. dead'[log[i]] > 0
      BY <2>2, <3>1
    <3> QED
      BY <2>3, <3>2 DEF CoveredFrom
  <2>6. Task(c) = log[i] /\ Current(c)
    BY <1>2, <2>3 DEF Task, Doc, Protected, Waiting, Current, Present
  <2>7. CASE ClaimTerminal(c)
    <3>1. /\ step[c] = "look" /\ status[Doc(c)] # "PROCESSING" /\ UNCHANGED <<status, stalls>>
          /\ status[Doc(c)] # "READY" => misread' = misread \cup {Task(c)}
      BY <2>6, <2>7 DEF ClaimTerminal, Held, documentVars
    <3>2. status[log[i][1]] \in {"QUEUED", "FAILED"} /\ Doc(c) = log[i][1]
      BY <2>3, <2>6, <3>1 DEF Protected, Waiting, Doc
    <3>3. status[Doc(c)] # "QUEUED"
      BY <1>a, <2>6, <3>1 DEF BegunInv
    <3>4. log[i] \in misread'
      BY <2>6, <3>1, <3>2
    <3> QED
      BY <1>2, <2>3, <3>1, <3>2, <3>3, <3>4 DEF Protected
  <2>8. CASE Complete(c)
    <3>1. /\ step[c] = "work" /\ stalls' = stalls /\ misread' = misread
          /\ IF status[Doc(c)] = "PROCESSING" THEN status' = [status EXCEPT ![Doc(c)] = "READY"]
             ELSE status' = status
      BY <2>6, <2>8 DEF Complete
    <3>2. Doc(c) = log[i][1] /\ Doc(c) \in Document /\ status[Doc(c)] # "QUEUED"
      BY <1>a, <2>2, <2>6, <3>1, TaskFacts DEF Doc, BegunInv
    <3>3. stalls = 0 => status[Doc(c)] = "PROCESSING"
      BY <1>a, <2>6, <3>1 DEF LeaseInv, HoldsLease
    <3>4. status[Doc(c)] = "PROCESSING" => status'[log[i][1]] = "READY"
      BY <1>a, <3>1, <3>2 DEF DocumentInv, DocumentType
    <3> QED
      BY <1>2, <2>3, <3>1, <3>2, <3>3, <3>4 DEF Protected, Waiting
  <2> QED
    BY <2>1, <2>4, <2>5, <2>7, <2>8
<1>3. ASSUME NEW c \in Consumer, pc'[c] = "ack", Protected(log[cur[c]])'
      PROVE  CoveredFrom(cur[c], (cur[c] + 1)..Len(log))'
  <2>1. PICK i : i = cur[c] /\ i = cur'[c]
    BY <1>a, <1>3, AckKinds
  <2>2. Protected(log[i])'
    BY <1>3, <2>1 DEF Protected, Waiting
  <2>3. CoveredFrom(i, (i + 1)..Len(log))'
    BY <1>2, <1>3, <2>1, <2>2
  <2> QED
    BY <2>1, <2>3 DEF CoveredFrom
<1> QED
  BY <1>1, <1>3 DEF CoverInv

\* Every step of the ingestion keeps its invariant.
LEMMA IngestInvariant == IngestSpec => []IngestInv
<1>1. IngestInit => IngestInv
  <2> SUFFICES ASSUME IngestInit PROVE IngestInv
    OBVIOUS
  <2>1. StreamInv /\ DocumentInv
    BY InitInv DEF IngestInit, DocumentInv, DocumentType, ReadyIsCurrent, Present, Status
  <2>2. PlaceInv
    BY DEF IngestInit, Init, PlaceInv
  <2>3. Len(log) = 0
    BY DEF IngestInit, Init
  <2>4. KnownInv /\ LeaseInv /\ BegunInv /\ OutboxInv /\ CoverInv
    BY <2>3 DEF IngestInit, Init, KnownInv, LeaseInv, BegunInv, OutboxInv, CoverInv, Waiting
  <2> QED
    BY <2>1, <2>2, <2>4 DEF IngestInv
<1>2. IngestInv /\ [IngestNext]_allVars => IngestInv'
  <2> SUFFICES ASSUME IngestInv, [IngestNext]_allVars PROVE IngestInv'
    OBVIOUS
  <2>1. /\ TypeOK /\ PlaceInv /\ DocumentInv /\ KnownInv /\ LeaseInv /\ BegunInv /\ OutboxInv
        /\ [Next]_vars
    BY IngestStepImplements DEF IngestInv, StreamInv
  <2>2. StreamInv'
    BY <2>1, NextType, JustifiedStep, StaleStep, LostStep DEF IngestInv, StreamInv
  <2> QED
    BY <2>1, <2>2, DocumentInvStep, PlaceStep, KnownStep, LeaseStep, BegunStep,
       OutboxStep, CoverStep
       DEF IngestInv
<1> QED
  BY <1>1, <1>2, PTL DEF IngestSpec

\* repositories/knowledge.py, claim_ingestion: as long as no worker outlives its
\* lease, no two workers are at the current generation of a document.
THEOREM OneWorkerAtATime == IngestSpec => []OneWorkerPerGeneration
<1>1. IngestInv => OneWorkerPerGeneration
  BY DEF IngestInv, LeaseInv, HoldsLease, OneWorkerPerGeneration
<1> QED
  BY <1>1, IngestInvariant, PTL

\* services/knowledge.py and create_document: the outbox, the stream and the
\* dead letters keep the task of every document that waits: whatever happens as
\* long as nobody has begun it, and afterwards as long as no worker outlives its
\* lease and no claim of it takes another worker's failure for the end.
THEOREM NoDocumentIsStranded == IngestSpec => []NothingStranded
<1>1. IngestInv => NothingStranded
  <2> SUFFICES ASSUME IngestInv, NEW d \in Document, Protected(<<d, generation[d]>>)
               PROVE  Kept(<<d, generation[d]>>)
    BY DEF NothingStranded, Protected, Waiting
  <2>1. CASE <<d, generation[d]>> \in unpublished
    BY <2>1 DEF Kept
  <2>2. CASE <<d, generation[d]>> \notin unpublished
    <3>1. PICK i \in 1..Len(log) : log[i] = <<d, generation[d]>>
      BY <2>2 DEF IngestInv, OutboxInv, Protected
    <3>2. CoveredFrom(i, i..Len(log))
      BY <3>1 DEF IngestInv, CoverInv
    <3>3. CASE dead[log[i]] > 0
      BY <3>1, <3>3 DEF Kept
    <3>4. ASSUME NEW k \in i..Len(log), log[k] = log[i], Unsettled(k)
          PROVE  Kept(<<d, generation[d]>>)
      <4>1. Len(log) \in Nat
        BY DEF IngestInv, StreamInv, TypeOK, StreamType
      <4>2. k \in 1..Len(log)
        BY <3>1, <3>4, <4>1
      <4> QED
        BY <3>1, <3>4, <4>2 DEF Kept, Unsettled
    <3> QED
      BY <3>2, <3>3, <3>4 DEF CoveredFrom
  <2> QED
    BY <2>1, <2>2
<1> QED
  BY <1>1, IngestInvariant, PTL

=============================================================================
