---------------------------- MODULE AgentWorker ----------------------------
(***************************************************************************)
(* The agent workers: AgentWorkerService.handle_payload of                  *)
(* src/mybot/services/agent_worker.py as the handler of the ingest stream,  *)
(* run under the conversation lease of src/mybot/infrastructure/leases.py.  *)
(*                                                                          *)
(* StreamConsumer's opaque handler is opened up: while pc[c] = "handler",   *)
(* step[c] says how far the turn is.  A step is one call that other         *)
(* processes can observe (Redis, the message table, the outbound stream);   *)
(* what only reads, traces or notifies is part of its neighbour.            *)
(***************************************************************************)
EXTENDS StreamConsumer

CONSTANTS
  Conversation,    \* conversation stable keys
  ConversationOf,  \* the conversation an envelope belongs to
  Shadow,          \* envelopes that carry an evaluation_result_id
  Free, Orphan,    \* a lease key that is absent; one whose run() call is gone
  Redelivery,      \* TRUE: a platform may deliver one update twice
  Replays,         \* TRUE: an operator may replay dead letters
  RenewalErrors,   \* TRUE: a lease renewal call may raise
  MaxStalls        \* bound: leases that expire under a living worker

ASSUME ConversationAssumption ==
  ConversationOf \in [Envelope -> Conversation] /\ Shadow \subseteq Envelope
ASSUME LeaseAssumption ==
  Free # Orphan /\ Free \notin Consumer /\ Orphan \notin Consumer
ASSUME WorkloadAssumption ==
  Redelivery \in BOOLEAN /\ Replays \in BOOLEAN
  /\ RenewalErrors \in BOOLEAN /\ MaxStalls \in Nat

VARIABLES
  step,      \* how far each worker's turn is, "idle" outside the handler
  lease,     \* whose token each conversation's lease key holds
  stored,    \* envelopes with an inbound row in the message table
  replies,   \* answers published to the outbound stream for each envelope
  stalls,    \* leases that expired under a living worker so far
  concluded  \* history: envelopes a turn answered, refused or chose to ignore

workerVars == <<step, lease, stored, replies, stalls, concluded>>
allVars == <<vars, workerVars>>

\* The steps LeaseManager.run guards with the lease.
Protected == {"admit", "notice", "persist", "decide", "turn", "publish", "release"}
Step == {"idle", "acquire"} \cup Protected

Conv(c) == ConversationOf[log[cur[c]]]

WorkerTypeOK ==
  /\ TypeOK
  /\ step \in [Consumer -> Step]
  /\ lease \in [Conversation -> Consumer \cup {Free, Orphan}]
  /\ stored \subseteq Envelope /\ concluded \subseteq Envelope
  /\ replies \in [Envelope -> Nat]
  /\ stalls \in 0..MaxStalls
  /\ \A c \in Consumer : step[c] = "idle" <=> pc[c] # "handler"

WorkerInit ==
  /\ Init
  /\ step = [c \in Consumer |-> "idle"]
  /\ lease = [k \in Conversation |-> Free]
  /\ stored = {} /\ concluded = {} /\ stalls = 0
  /\ replies = [e \in Envelope |-> 0]

-----------------------------------------------------------------------------
(* The lease.                                                              *)

\* Mutant: SET without NX.
AcquireAnyway(c) ==
  /\ step[c] = "acquire"
  /\ lease' = [lease EXCEPT ![Conv(c)] = c]
  /\ step' = [step EXCEPT ![c] = "admit"]
  /\ UNCHANGED <<vars, stored, replies, stalls, concluded>>

\* backend.acquire: SET NX PX.
Acquire(c) ==
  /\ step[c] = "acquire" /\ lease[Conv(c)] = Free
  /\ lease' = [lease EXCEPT ![Conv(c)] = c]
  /\ step' = [step EXCEPT ![c] = "admit"]
  /\ UNCHANGED <<vars, stored, replies, stalls, concluded>>

\* The wait timed out: TimeoutError fails the delivery.
LeaseTimeout(c) ==
  /\ step[c] = "acquire" /\ lease[Conv(c)] # Free
  /\ HandlerFails(c)
  /\ step' = [step EXCEPT ![c] = "idle"]
  /\ UNCHANGED <<lease, stored, replies, stalls, concluded>>

\* Mutant: DEL without the token check.
ReleaseUnchecked(c) == lease' = [lease EXCEPT ![Conv(c)] = Free]

\* backend.release: the script deletes the key only if it holds our token; if
\* the call raises, the key stays until its TTL runs out.
Release(c) ==
  \E left \in {Free, Orphan} :
    lease' = [lease EXCEPT ![Conv(c)] = IF @ = c THEN left ELSE @]

\* Mutant: SET without PX, a lease nobody holds any more never expires.
LeaseExpiresNever(k) ==
  /\ lease[k] \in Consumer /\ stalls < MaxStalls /\ stalls' = stalls + 1
  /\ lease' = [lease EXCEPT ![k] = Free]
  /\ UNCHANGED <<vars, step, stored, replies, concluded>>

\* ttl_ms pass without a renewal: the run() call is gone, or the worker was
\* stalled for longer than the TTL.
LeaseExpires(k) ==
  /\ \/ lease[k] = Orphan /\ UNCHANGED stalls
     \/ lease[k] \in Consumer /\ stalls < MaxStalls /\ stalls' = stalls + 1
  /\ lease' = [lease EXCEPT ![k] = Free]
  /\ UNCHANGED <<vars, step, stored, replies, concluded>>

\* _renew finds the key gone or taken over, or its call raises: the turn is
\* cancelled, or has just ended, and fails with LeaseLostError; the release that
\* follows does nothing if the key holds another token.
LeaseLost(c) ==
  /\ step[c] \in Protected
  /\ lease[Conv(c)] # c \/ RenewalErrors
  /\ Release(c)
  /\ HandlerFails(c)
  /\ step' = [step EXCEPT ![c] = "idle"]
  /\ UNCHANGED <<stored, replies, stalls, concluded>>

-----------------------------------------------------------------------------
(* _handle_serialized.                                                     *)

Goto(c, from, to) ==
  /\ step[c] = from
  /\ step' = [step EXCEPT ![c] = to]
  /\ UNCHANGED vars

Conclude(c) == concluded' = concluded \cup {log[cur[c]]}

\* access.check and the inbound moderation: let the message in, drop it, or
\* answer it with a notice.
Admit(c) ==
  /\ \/ Goto(c, "admit", "persist") /\ UNCHANGED concluded
     \/ Goto(c, "admit", "release") /\ Conclude(c)
     \/ Goto(c, "admit", "notice") /\ UNCHANGED concluded
  /\ UNCHANGED <<lease, stored, replies, stalls>>

\* _publish_access_reply: a fixed text, not counted as an answer.
PublishNotice(c) ==
  /\ Goto(c, "notice", "release")
  /\ Conclude(c)
  /\ UNCHANGED <<lease, stored, replies, stalls>>

\* Mutant: every duplicate is processed again.
PersistNeverSkips(c) ==
  /\ Goto(c, "persist", "decide")
  /\ stored' = stored \cup {log[cur[c]]}
  /\ UNCHANGED <<lease, replies, stalls, concluded>>

\* Mutant: every duplicate is skipped, the retry of an interrupted turn too.
PersistAlwaysSkips(c) ==
  /\ Goto(c, "persist", IF log[cur[c]] \in stored THEN "release" ELSE "decide")
  /\ stored' = stored \cup {log[cur[c]]}
  /\ UNCHANGED <<lease, replies, stalls, concluded>>

\* record_inbound: insert or find the row.  A duplicate on a first delivery is
\* skipped, on a redelivery the interrupted turn is resumed.
Persist(c) ==
  LET duplicate == log[cur[c]] \in stored IN
  /\ Goto(c, "persist", IF duplicate /\ att[c] <= 1 THEN "release" ELSE "decide")
  /\ stored' = stored \cup {log[cur[c]]}
  /\ UNCHANGED <<lease, replies, stalls, concluded>>

\* decide_turn, willingness and the guards: answer or stay silent.
Decide(c) ==
  /\ \/ Goto(c, "decide", "turn") /\ UNCHANGED concluded
     \/ Goto(c, "decide", "release") /\ Conclude(c)
  /\ UNCHANGED <<lease, stored, replies, stalls>>

\* Build the reply plan (refusal, annotation, agent turn or command) and
\* moderate it.  A shadow evaluation stores the plan and sends nothing.
RunTurn(c) ==
  LET shadow == log[cur[c]] \in Shadow IN
  /\ Goto(c, "turn", IF shadow THEN "release" ELSE "publish")
  /\ IF shadow THEN Conclude(c) ELSE UNCHANGED concluded
  /\ UNCHANGED <<lease, stored, replies, stalls>>

\* record_outbound (a row nobody else reads before the gateway delivers it) and
\* outbound.publish; what follows (trace, after_reply) swallows its errors.
PublishReply(c) ==
  /\ Goto(c, "publish", "release")
  /\ replies' = [replies EXCEPT ![log[cur[c]]] = @ + 1]
  /\ Conclude(c)
  /\ UNCHANGED <<lease, stored, stalls>>

\* The turn is over: release, return to _handle.
Finish(c) ==
  /\ step[c] = "release"
  /\ Release(c)
  /\ HandlerSucceeds(c)
  /\ step' = [step EXCEPT ![c] = "idle"]
  /\ UNCHANGED <<stored, replies, stalls, concluded>>

\* Mutant: the turn's errors are swallowed.
TurnRaisesSwallowed(c) ==
  /\ step[c] \in Protected \ {"release"}
  /\ Release(c)
  /\ HandlerSucceeds(c)
  /\ step' = [step EXCEPT ![c] = "idle"]
  /\ UNCHANGED <<stored, replies, stalls, concluded>>

\* A call of the turn raises: release, fail the delivery.
TurnRaises(c) ==
  /\ step[c] \in Protected \ {"release"}
  /\ Release(c)
  /\ HandlerFails(c)
  /\ step' = [step EXCEPT ![c] = "idle"]
  /\ UNCHANGED <<stored, replies, stalls, concluded>>

\* The process dies (its lease is left behind) or is cancelled (its lease is
\* released on the way out).
Crash(c) ==
  /\ IterationFails(c)
  /\ IF step[c] \in Protected THEN Release(c) ELSE UNCHANGED lease
  /\ step' = [step EXCEPT ![c] = "idle"]
  /\ UNCHANGED <<stored, replies, stalls, concluded>>

\* _handle hands the payload over unless it is malformed or already done.
Dispatch(c) ==
  /\ CheckOnce(c)
  /\ step' = [step EXCEPT ![c] = IF pc'[c] = "handler" THEN "acquire" ELSE "idle"]
  /\ UNCHANGED <<lease, stored, replies, stalls, concluded>>

-----------------------------------------------------------------------------
TurnStep(c) ==
  \/ Acquire(c) \/ LeaseTimeout(c) \/ LeaseLost(c) \/ Admit(c) \/ PublishNotice(c)
  \/ Persist(c) \/ Decide(c) \/ RunTurn(c) \/ PublishReply(c)
  \/ Finish(c) \/ TurnRaises(c)

\* The parts of process_available outside the handler.
LoopStep(c) ==
  /\ \/ ClaimStale(c) \/ TakeStale(c) \/ ReadNew(c) \/ TakeFresh(c) \/ EndIteration(c)
     \/ MarkOnce(c) \/ Bury(c) \/ Ack(c)
  /\ UNCHANGED workerVars

WorkerStep(c) == TurnStep(c) \/ Dispatch(c) \/ LoopStep(c)

Deliver(e) ==
  /\ Redelivery \/ \A i \in 1..Len(log) : log[i] # e
  /\ Publish(e)
  /\ UNCHANGED workerVars

Environment ==
  \/ \E e \in Envelope : Deliver(e)
  \/ \E e \in Envelope : Replays /\ ReplayDeadLetter(e) /\ UNCHANGED workerVars
  \/ \E e \in Envelope : OnceExpires(e) /\ UNCHANGED workerVars
  \/ \E i \in EntryId : BecomesStale(i) /\ UNCHANGED workerVars
  \/ \E k \in Conversation : LeaseExpires(k)
  \/ \E c \in Consumer : Crash(c)

WorkerNext == Environment \/ \E c \in Consumer : WorkerStep(c)

WorkerSpec == WorkerInit /\ [][WorkerNext]_allVars

\* Workers run, time passes: idle entries become stale, dead leases expire.
WorkerFairness ==
  /\ \A c \in Consumer : WF_allVars(WorkerStep(c))
  /\ \A i \in EntryId : WF_allVars(BecomesStale(i) /\ UNCHANGED workerVars)
  /\ \A k \in Conversation : WF_allVars(lease[k] = Orphan /\ LeaseExpires(k))

FairWorkerSpec == WorkerSpec /\ WorkerFairness

-----------------------------------------------------------------------------
(* Properties.                                                             *)

\* agent_worker.py handle_payload: as long as no worker is stalled beyond the
\* lease TTL, two workers never run a turn of one conversation together, over
\* all crashes, restarts, retries and failed releases.
OneTurnPerConversation ==
  stalls = 0 =>
    \A c, d \in Consumer :
      step[c] \in Protected /\ step[d] \in Protected /\ c # d => Conv(c) # Conv(d)

\* README.md: "token-checked Lua renewal/release prevents one worker from
\* releasing another's lease".  A lease leaves its owner only when the owner's
\* own turn ends or its TTL runs out, even if other workers still believe
\* that they hold it.
LeaseLeavesOnlyItsOwner ==
  [][\A k \in Conversation, c \in Consumer :
       lease[k] = c /\ lease'[k] # c => step'[c] = "idle" \/ stalls' # stalls]_allVars

\* _handle_serialized: a message that was answered is answered again only by a
\* redelivery (attempt > 1) that resumes an interrupted turn, never by a first
\* delivery: the inbound row suppresses a second copy of the message even when
\* the dedupe key is gone, whatever the other replica does, as long as no
\* worker is stalled beyond the lease TTL.
RepeatsOnlyOnRetry ==
  stalls = 0 =>
    \A c \in Consumer :
      step[c] = "publish" /\ replies[log[cur[c]]] > 0 => att[c] > 1

\* README.md: a process can restart "without losing ... a message".  With one
\* replica and no second copy of a message in the stream, a completed message
\* was answered, refused or ignored by a turn that got that far, or is in the
\* dead-letter stream; skipping stored duplicates never swallows it.
NoAnswerLost ==
  \A e \in completed : e \in concluded \/ \E i \in buried : log[i] = e

\* A conversation is not blocked for ever by a worker that died in a turn, and
\* every holder lets go in the end.
LeaseIsFreed ==
  \A k \in Conversation : lease[k] # Free ~> lease[k] = Free

\* Every message that reaches the stream is concluded by a turn or ends in the
\* dead-letter stream, over failing turns, lease waits and a crash.
EveryMessageSettles ==
  \A e \in Envelope :
    (\E i \in 1..Len(log) : log[i] = e)
      ~> (e \in concluded \/ \E i \in buried : log[i] = e)
=============================================================================
