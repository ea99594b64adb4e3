-------------------------- MODULE AgentWorkerProofs --------------------------
(***************************************************************************)
(* The workers implement the stream, so what is proved of StreamConsumer    *)
(* holds of them; and the conversation lease excludes, is never released by *)
(* a stranger, and together with the inbound row suppresses repeats.        *)
(* With one replica the row never suppresses a message nobody concluded.    *)
(***************************************************************************)
EXTENDS AgentWorker, StreamConsumerProofs

\* Every worker step is a step of the stream, or none (the handler is opaque
\* to StreamConsumer).
LEMMA StepImplements == [WorkerNext]_allVars => [Next]_vars
<1> SUFFICES ASSUME [WorkerNext]_allVars PROVE [Next]_vars
  OBVIOUS
<1>1. ASSUME NEW c \in Consumer, TurnStep(c) PROVE [Next]_vars
  <2>1. HandlerSucceeds(c) \/ HandlerFails(c) \/ UNCHANGED vars
    BY <1>1 DEF TurnStep, Acquire, LeaseTimeout, LeaseLost, Admit, PublishNotice, Persist,
       Decide, RunTurn, PublishReply, Finish, TurnRaises, Goto
  <2> QED
    BY <2>1 DEF Next, ConsumerStep
<1>2. ASSUME NEW c \in Consumer, Dispatch(c) \/ LoopStep(c) \/ Crash(c) PROVE [Next]_vars
  BY <1>2 DEF Dispatch, LoopStep, Crash, Next, ConsumerStep
<1>3. CASE Environment
  <2>1. ASSUME NEW k \in Conversation, LeaseExpires(k) PROVE UNCHANGED vars
    BY <2>1 DEF LeaseExpires
  <2> QED
    BY <1>2, <1>3, <2>1 DEF Environment, Deliver, Next
<1>4. CASE UNCHANGED allVars
  BY <1>4 DEF allVars
<1> QED
  BY <1>1, <1>2, <1>3, <1>4 DEF WorkerNext, WorkerStep

\* The workers implement StreamConsumer: a turn, however it ends, is a handler
\* run of the ingest stream.
THEOREM WorkerImplementsStream == WorkerSpec => Spec
<1>1. WorkerInit => Init
  BY DEF WorkerInit
<1> QED
  BY <1>1, StepImplements, PTL DEF WorkerSpec, Spec

\* What the stream promises holds of the workers' ingest stream.
THEOREM WorkerLosesNoEntry == WorkerSpec => []NothingLost
BY WorkerImplementsStream, NothingIsLost, PTL

-----------------------------------------------------------------------------
(* Types.                                                                   *)

USE ConversationAssumption, LeaseAssumption, WorkloadAssumption

\* The workers' own state, without the stream's.
TurnType ==
  /\ step \in [Consumer -> Step]
  /\ lease \in [Conversation -> Consumer \cup {Free, Orphan}]
  /\ stored \subseteq Envelope /\ concluded \subseteq Envelope
  /\ replies \in [Envelope -> Nat]
  /\ stalls \in 0..MaxStalls
  /\ \A c \in Consumer : step[c] = "idle" <=> pc[c] # "handler"

\* A worker inside the handler works on a published entry of some conversation.
LEMMA TurnEntry ==
  ASSUME WorkerTypeOK, NEW c \in Consumer, step[c] # "idle"
  PROVE  /\ pc[c] = "handler" /\ cur[c] \in 1..Len(log) /\ log[cur[c]] \in Envelope
         /\ Conv(c) \in Conversation
BY CurrentEntry DEF WorkerTypeOK, Conv

\* The initial state is well typed.
LEMMA WorkerInitType == WorkerInit => WorkerTypeOK
BY InitType DEF WorkerInit, Init, WorkerTypeOK, Step

\* A release only ever frees or orphans the caller's own lease.
LEMMA ReleaseFacts ==
  ASSUME WorkerTypeOK, NEW c \in Consumer, step[c] # "idle", Release(c)
  PROVE  /\ lease' \in [Conversation -> Consumer \cup {Free, Orphan}]
         /\ \A k \in Conversation : lease'[k] = lease[k] \/ lease[k] = c
BY TurnEntry DEF WorkerTypeOK, Release

\* The step of one worker leaves the others' turns and the stream's payloads
\* alone, and keeps its own entry while it stays in the handler.
LEMMA WorkerFrame ==
  ASSUME WorkerTypeOK, NEW c \in Consumer, WorkerStep(c) \/ Crash(c)
  PROVE  /\ log' = log
         /\ \A d \in Consumer \ {c} :
              /\ pc'[d] = pc[d] /\ step'[d] = step[d]
              /\ cur'[d] = cur[d] /\ att'[d] = att[d]
<1>a. /\ pc \in [Consumer -> PC] /\ cur \in [Consumer -> EntryId \cup {0}]
      /\ att \in [Consumer -> 0..CountCap] /\ step \in [Consumer -> Step]
  BY DEF WorkerTypeOK, TypeOK, ConsumerType
<1>b. CASE UNCHANGED vars /\ \E to \in Step : step' = [step EXCEPT ![c] = to]
  BY <1>a, <1>b DEF vars, streamVars, consumerVars
<1>c. CASE /\ HandlerSucceeds(c) \/ HandlerFails(c) \/ IterationFails(c)
           /\ step' = [step EXCEPT ![c] = "idle"]
  BY <1>a, <1>c DEF HandlerSucceeds, HandlerFails, IterationFails, Forget, streamVars
<1>1. CASE TurnStep(c)
  <2>1. CASE \/ Acquire(c) \/ Admit(c) \/ PublishNotice(c) \/ Persist(c)
             \/ Decide(c) \/ RunTurn(c) \/ PublishReply(c)
    BY <1>b, <2>1 DEF Acquire, Admit, PublishNotice, Persist, Decide, RunTurn, PublishReply,
       Goto, Step, Protected
  <2>2. CASE LeaseTimeout(c) \/ LeaseLost(c) \/ Finish(c) \/ TurnRaises(c)
    BY <1>c, <2>2 DEF LeaseTimeout, LeaseLost, Finish, TurnRaises
  <2> QED
    BY <1>1, <2>1, <2>2 DEF TurnStep
<1>2. CASE Dispatch(c)
  BY <1>a, <1>2 DEF Dispatch, CheckOnce, streamVars
<1>3. CASE LoopStep(c)
  <2>1. UNCHANGED step
    BY <1>3 DEF LoopStep, workerVars
  <2>2. CASE ClaimStale(c) \/ TakeStale(c) \/ ReadNew(c) \/ TakeFresh(c) \/ EndIteration(c)
    BY <1>a, <2>1, <2>2 DEF ClaimStale, TakeStale, ReadNew, TakeFresh, EndIteration, streamVars
  <2>3. CASE MarkOnce(c) \/ Bury(c) \/ Ack(c)
    BY <1>a, <2>1, <2>3 DEF MarkOnce, Bury, Ack, Forget
  <2> QED
    BY <1>3, <2>2, <2>3 DEF LoopStep
<1>4. CASE Crash(c)
  BY <1>c, <1>4 DEF Crash
<1> QED
  BY <1>1, <1>2, <1>3, <1>4 DEF WorkerStep

\* Every step keeps the types.
LEMMA WorkerNextType == WorkerTypeOK /\ [WorkerNext]_allVars => WorkerTypeOK'
<1> SUFFICES ASSUME WorkerTypeOK, [WorkerNext]_allVars PROVE TurnType'
  BY StepImplements, NextType DEF WorkerTypeOK, TurnType
<1>a. TypeOK /\ TurnType
  BY DEF WorkerTypeOK, TurnType
<1>b. pc \in [Consumer -> PC] /\ log \in Seq(Envelope)
  BY <1>a DEF TypeOK, ConsumerType, StreamType
<1> USE DEF Step, Protected, PC
<1>1. ASSUME NEW c \in Consumer, NEW from \in Protected, NEW to \in Protected, Goto(c, from, to),
             stored' \subseteq Envelope, concluded' \subseteq Envelope,
             replies' \in [Envelope -> Nat], UNCHANGED <<lease, stalls>>
      PROVE  TurnType'
  <2>1. UNCHANGED pc
    BY <1>1 DEF Goto, vars, consumerVars
  <2> QED
    BY <1>a, <1>b, <1>1, <2>1 DEF Goto, TurnType
<1>2. ASSUME NEW c \in Consumer,
             step' = [step EXCEPT ![c] = "idle"],
             HandlerSucceeds(c) \/ HandlerFails(c) \/ IterationFails(c),
             lease' \in [Conversation -> Consumer \cup {Free, Orphan}],
             UNCHANGED <<stored, replies, stalls, concluded>>
      PROVE  TurnType'
  <2>1. \E to \in PC \ {"handler"} : pc' = [pc EXCEPT ![c] = to]
    BY <1>2 DEF HandlerSucceeds, HandlerFails, IterationFails
  <2> QED
    BY <1>a, <1>b, <1>2, <2>1 DEF TurnType
<1>3. ASSUME NEW c \in Consumer, TurnStep(c) PROVE TurnType'
  <2>a. step[c] # "idle"
    BY <1>3 DEF TurnStep, Acquire, LeaseTimeout, LeaseLost, Admit, PublishNotice, Persist,
       Decide, RunTurn, PublishReply, Finish, TurnRaises, Goto
  <2>b. pc[c] = "handler" /\ log[cur[c]] \in Envelope /\ Conv(c) \in Conversation
    BY <2>a, TurnEntry
  <2>1. CASE Acquire(c)
    <3>1. UNCHANGED pc
      BY <2>1 DEF Acquire, vars, consumerVars
    <3> QED
      BY <1>a, <1>b, <2>b, <2>1, <3>1 DEF Acquire, TurnType
  <2>2. CASE Admit(c)
    BY <1>a, <1>1, <2>b, <2>2 DEF Admit, Conclude, TurnType
  <2>3. CASE PublishNotice(c)
    BY <1>a, <1>1, <2>b, <2>3 DEF PublishNotice, Conclude, TurnType
  <2>4. CASE Persist(c)
    BY <1>a, <1>1, <2>b, <2>4 DEF Persist, TurnType
  <2>5. CASE Decide(c)
    BY <1>a, <1>1, <2>b, <2>5 DEF Decide, Conclude, TurnType
  <2>6. CASE RunTurn(c)
    BY <1>a, <1>1, <2>b, <2>6 DEF RunTurn, Conclude, TurnType
  <2>7. CASE PublishReply(c)
    <3>1. replies' \in [Envelope -> Nat]
      <4>1. replies \in [Envelope -> Nat] /\ replies' = [replies EXCEPT ![log[cur[c]]] = @ + 1]
        BY <1>a, <2>7 DEF PublishReply, TurnType
      <4> QED
        BY <2>b, <4>1
    <3> QED
      BY <1>a, <1>1, <2>b, <2>7, <3>1 DEF PublishReply, Conclude, TurnType
  <2>8. CASE LeaseTimeout(c)
    BY <1>a, <1>2, <2>8 DEF LeaseTimeout, TurnType
  <2>9. CASE Finish(c) \/ TurnRaises(c) \/ LeaseLost(c)
    BY <1>2, <2>a, <2>9, ReleaseFacts DEF Finish, TurnRaises, LeaseLost
  <2> QED
    BY <1>3, <2>1, <2>2, <2>3, <2>4, <2>5, <2>6, <2>7, <2>8, <2>9 DEF TurnStep
<1>4. ASSUME NEW c \in Consumer, Dispatch(c) PROVE TurnType'
  <2>1. \E to \in PC : pc' = [pc EXCEPT ![c] = to]
    BY <1>4 DEF Dispatch, CheckOnce
  <2> QED
    BY <1>a, <1>b, <1>4, <2>1 DEF Dispatch, TurnType
<1>5. ASSUME NEW c \in Consumer, LoopStep(c) PROVE TurnType'
  <2>1. pc[c] # "handler" /\ \E to \in PC \ {"handler"} : pc' = [pc EXCEPT ![c] = to]
    BY <1>5 DEF LoopStep, ClaimStale, TakeStale, ReadNew, TakeFresh, EndIteration,
       MarkOnce, Bury, Ack
  <2>2. UNCHANGED <<step, lease, stored, replies, stalls, concluded>>
    BY <1>5 DEF LoopStep, workerVars
  <2> QED
    BY <1>a, <1>b, <2>1, <2>2 DEF TurnType
<1>6. ASSUME NEW c \in Consumer, Crash(c) PROVE TurnType'
  <2>1. lease' \in [Conversation -> Consumer \cup {Free, Orphan}]
    BY <1>a, <1>6, ReleaseFacts DEF Crash, TurnType
  <2> QED
    BY <1>2, <1>6, <2>1 DEF Crash
<1>7. ASSUME NEW k \in Conversation, LeaseExpires(k) PROVE TurnType'
  <2>1. UNCHANGED pc
    BY <1>7 DEF LeaseExpires, vars, consumerVars
  <2>2. stalls' \in 0..MaxStalls
    BY <1>a, <1>7 DEF LeaseExpires, TurnType
  <2> QED
    BY <1>a, <1>7, <2>1, <2>2 DEF LeaseExpires, TurnType
<1>8. CASE UNCHANGED workerVars /\ UNCHANGED pc
  BY <1>a, <1>8 DEF workerVars, TurnType
<1>9. ASSUME \/ \E e \in Envelope : Deliver(e)
             \/ \E e \in Envelope : ReplayDeadLetter(e) /\ UNCHANGED workerVars
             \/ \E e \in Envelope : OnceExpires(e) /\ UNCHANGED workerVars
             \/ \E i \in EntryId : BecomesStale(i) /\ UNCHANGED workerVars
             \/ UNCHANGED allVars
      PROVE  TurnType'
  BY <1>8, <1>9 DEF Deliver, Publish, ReplayDeadLetter, OnceExpires, BecomesStale, allVars,
     vars, consumerVars
<1> QED
  BY <1>3, <1>4, <1>5, <1>6, <1>7, <1>9 DEF WorkerNext, WorkerStep, Environment

\* The workers keep their types for every value of the constants.
THEOREM WorkerTypeCorrect == WorkerSpec => []WorkerTypeOK
BY WorkerInitType, WorkerNextType, PTL DEF WorkerSpec

-----------------------------------------------------------------------------
(* The lease.  OneTurnPerConversation is not inductive: the reason why a      *)
(* second worker is kept out is that the first one's token is in the key.     *)

\* A worker inside the guarded part of run() owns its conversation's lease.
HoldersOwn ==
  stalls = 0 => \A c \in Consumer : step[c] \in Protected => lease[Conv(c)] = c

\* The inductive invariant of the lease.
LeaseInv == WorkerTypeOK /\ HoldersOwn

\* A worker's step changes only a free lease or its own; it is in the guarded
\* part afterwards only if it was before, with the same lease and entry, or has
\* just acquired.
LEMMA LeaseSteps ==
  ASSUME WorkerTypeOK, NEW c \in Consumer, WorkerStep(c) \/ Crash(c)
  PROVE  /\ \A k \in Conversation : lease'[k] = lease[k] \/ lease[k] \in {c, Free}
         /\ \A k \in Conversation : lease[k] = c /\ lease'[k] # c => step'[c] = "idle"
         /\ step'[c] \in Protected =>
              /\ step[c] # "idle" /\ cur'[c] = cur[c] /\ att'[c] = att[c]
              /\ (step[c] \in Protected /\ lease' = lease) \/ lease'[Conv(c)] = c
         /\ stalls' = stalls
<1>a. /\ step \in [Consumer -> Step] /\ pc \in [Consumer -> PC]
      /\ lease \in [Conversation -> Consumer \cup {Free, Orphan}]
      /\ step[c] = "idle" <=> pc[c] # "handler"
  BY DEF WorkerTypeOK, TypeOK, ConsumerType
<1> USE DEF Step, Protected
<1>1. CASE Acquire(c)
  <2>1. step[c] # "idle" /\ UNCHANGED <<cur, att>>
    BY <1>1 DEF Acquire, vars, consumerVars
  <2> QED
    BY <1>a, <1>1, <2>1, TurnEntry DEF Acquire
<1>2. CASE \/ Admit(c) \/ PublishNotice(c) \/ Persist(c) \/ Decide(c) \/ RunTurn(c)
           \/ PublishReply(c)
  <2>1. /\ step[c] \in Protected
        /\ UNCHANGED <<lease, stalls, vars>>
    BY <1>2 DEF Admit, PublishNotice, Persist, Decide, RunTurn, PublishReply, Goto
  <2> QED
    BY <1>a, <2>1 DEF vars, consumerVars
<1>3. CASE Finish(c) \/ TurnRaises(c) \/ LeaseTimeout(c) \/ LeaseLost(c)
  <2>1. step[c] # "idle" /\ step' = [step EXCEPT ![c] = "idle"] /\ UNCHANGED stalls
    BY <1>3 DEF Finish, TurnRaises, LeaseTimeout, LeaseLost
  <2>2. UNCHANGED lease \/ Release(c)
    BY <1>3 DEF Finish, TurnRaises, LeaseTimeout, LeaseLost
  <2> QED
    BY <1>a, <2>1, <2>2, ReleaseFacts
<1>4. CASE Crash(c)
  <2>1. step' = [step EXCEPT ![c] = "idle"] /\ UNCHANGED stalls
    BY <1>4 DEF Crash
  <2>2. UNCHANGED lease \/ (step[c] # "idle" /\ Release(c))
    BY <1>4 DEF Crash
  <2> QED
    BY <1>a, <2>1, <2>2, ReleaseFacts
<1>5. CASE Dispatch(c)
  BY <1>a, <1>5 DEF Dispatch
<1>6. CASE LoopStep(c)
  <2>1. pc[c] # "handler"
    BY <1>6 DEF LoopStep, ClaimStale, TakeStale, ReadNew, TakeFresh, EndIteration,
       MarkOnce, Bury, Ack
  <2> QED
    BY <1>a, <1>6, <2>1 DEF LoopStep, workerVars
<1> QED
  BY <1>1, <1>2, <1>3, <1>4, <1>5, <1>6 DEF WorkerStep, TurnStep

\* A message entering the stream leaves the workers' entries alone.
LEMMA DeliverFrame ==
  ASSUME WorkerTypeOK, NEW e \in Envelope, Publish(e) \/ ReplayDeadLetter(e), UNCHANGED workerVars
  PROVE  /\ UNCHANGED <<step, lease, stored, replies, stalls, cur, att>>
         /\ \A c \in Consumer : step[c] # "idle" => log'[cur[c]] = log[cur[c]]
<1>1. Add(e) /\ UNCHANGED <<step, lease, stored, replies, stalls, cur, att>>
  BY DEF Publish, ReplayDeadLetter, consumerVars, workerVars
<1>2. \A i \in 1..Len(log) : log'[i] = log[i]
  BY <1>1, AddFacts DEF WorkerTypeOK, TypeOK
<1> QED
  BY <1>1, <1>2, TurnEntry

\* The steps that are nobody's turn and that leave the payloads alone.
LEMMA EnvironmentSteps ==
  ASSUME [WorkerNext]_allVars
  PROVE  \/ \E c \in Consumer : WorkerStep(c) \/ Crash(c)
         \/ \E e \in Envelope : (Publish(e) \/ ReplayDeadLetter(e)) /\ UNCHANGED workerVars
         \/ \E k \in Conversation : LeaseExpires(k)
         \/ UNCHANGED <<workerVars, log, cur, att>>
<1>1. ASSUME NEW e \in Envelope, OnceExpires(e) PROVE UNCHANGED <<log, cur, att>>
  BY <1>1 DEF OnceExpires, consumerVars
<1>2. ASSUME NEW i \in EntryId, BecomesStale(i) PROVE UNCHANGED <<log, cur, att>>
  BY <1>2 DEF BecomesStale, consumerVars
<1>3. CASE UNCHANGED allVars
  BY <1>3 DEF allVars, vars, streamVars, consumerVars
<1> QED
  BY <1>1, <1>2, <1>3 DEF WorkerNext, Environment, Deliver

\* Holders keep their lease: no step takes it from them but a stall.
LEMMA HolderStep == LeaseInv /\ [WorkerNext]_allVars => HoldersOwn'
<1> SUFFICES ASSUME LeaseInv, [WorkerNext]_allVars, stalls' = 0,
                    NEW d \in Consumer, step'[d] \in Protected
             PROVE  lease'[Conv(d)'] = d
  BY DEF HoldersOwn
<1>a. WorkerTypeOK /\ HoldersOwn /\ stalls \in Nat
  BY DEF LeaseInv, WorkerTypeOK
<1>b. "idle" \notin Protected
  BY DEF Protected
<1>1. ASSUME NEW c \in Consumer, WorkerStep(c) \/ Crash(c) PROVE lease'[Conv(d)'] = d
  <2>1. stalls = 0 /\ log' = log
    BY <1>a, <1>1, LeaseSteps, WorkerFrame
  <2>2. CASE d = c
    <3>1. Conv(d)' = Conv(d)
      BY <1>a, <1>1, <2>1, <2>2, LeaseSteps DEF Conv
    <3> QED
      BY <1>a, <1>1, <2>1, <2>2, <3>1, LeaseSteps DEF HoldersOwn
  <2>3. CASE d # c
    <3>1. step[d] \in Protected /\ Conv(d)' = Conv(d)
      BY <1>a, <1>1, <2>1, <2>3, WorkerFrame DEF Conv
    <3>2. lease[Conv(d)] = d /\ Conv(d) \in Conversation
      BY <1>a, <1>b, <2>1, <3>1, TurnEntry DEF HoldersOwn
    <3> QED
      BY <1>a, <1>1, <2>3, <3>1, <3>2, LeaseSteps
  <2> QED
    BY <2>2, <2>3
<1>2. ASSUME NEW e \in Envelope, Publish(e) \/ ReplayDeadLetter(e), UNCHANGED workerVars
      PROVE  lease'[Conv(d)'] = d
  BY <1>a, <1>b, <1>2, DeliverFrame DEF HoldersOwn, Conv
<1>3. ASSUME NEW k \in Conversation, LeaseExpires(k) PROVE lease'[Conv(d)'] = d
  <2>1. lease[k] = Orphan /\ stalls = 0 /\ UNCHANGED <<vars, step>>
    BY <1>a, <1>3 DEF LeaseExpires
  <2>2. Conv(d)' = Conv(d) /\ step[d] \in Protected
    BY <2>1 DEF vars, streamVars, consumerVars, Conv
  <2>3. lease[Conv(d)] = d /\ Conv(d) \in Conversation
    BY <1>a, <1>b, <2>1, <2>2, TurnEntry DEF HoldersOwn
  <2> QED
    BY <1>a, <1>3, <2>1, <2>2, <2>3 DEF LeaseExpires, WorkerTypeOK
<1>4. CASE UNCHANGED <<workerVars, log, cur, att>>
  BY <1>a, <1>4 DEF workerVars, HoldersOwn, Conv
<1> QED
  BY <1>1, <1>2, <1>3, <1>4, EnvironmentSteps

\* The lease's inductive invariant holds in every reachable state.
THEOREM LeaseInvariant == WorkerSpec => []LeaseInv
<1>1. WorkerInit => LeaseInv
  BY WorkerInitType DEF WorkerInit, LeaseInv, HoldersOwn, Protected
<1>2. LeaseInv /\ [WorkerNext]_allVars => LeaseInv'
  BY WorkerNextType, HolderStep DEF LeaseInv
<1> QED
  BY <1>1, <1>2, PTL DEF WorkerSpec

\* Without stalls beyond the TTL, turns of one conversation never overlap, for
\* any number of replicas, messages and crashes.
THEOREM TurnsExclude == WorkerSpec => []OneTurnPerConversation
<1>1. LeaseInv => OneTurnPerConversation
  BY DEF LeaseInv, HoldersOwn, OneTurnPerConversation
<1> QED
  BY <1>1, LeaseInvariant, PTL

\* No worker ever releases another's lease, stalls included.
THEOREM LeaseIsTokenChecked == WorkerSpec => LeaseLeavesOnlyItsOwner
<1>1. ASSUME WorkerTypeOK, [WorkerNext]_allVars,
             NEW k \in Conversation, NEW c \in Consumer, lease[k] = c, lease'[k] # c
      PROVE  step'[c] = "idle" \/ stalls' # stalls
  <2>1. ASSUME NEW d \in Consumer, WorkerStep(d) \/ Crash(d) PROVE step'[c] = "idle"
    BY <1>1, <2>1, LeaseSteps
  <2>2. ASSUME NEW e \in Envelope, Publish(e) \/ ReplayDeadLetter(e), UNCHANGED workerVars
        PROVE  FALSE
    BY <1>1, <2>2 DEF workerVars
  <2>3. ASSUME NEW j \in Conversation, LeaseExpires(j) PROVE stalls' # stalls
    BY <1>1, <2>3 DEF LeaseExpires, WorkerTypeOK
  <2>4. CASE UNCHANGED <<workerVars, log, cur, att>>
    BY <1>1, <2>4 DEF workerVars
  <2> QED
    BY <1>1, <2>1, <2>2, <2>3, <2>4, EnvironmentSteps
<1>2. WorkerTypeOK /\ [WorkerNext]_allVars =>
        [\A k \in Conversation, c \in Consumer :
           lease[k] = c /\ lease'[k] # c => step'[c] = "idle" \/ stalls' # stalls]_allVars
  BY <1>1
<1> QED
  BY <1>2, WorkerTypeCorrect, PTL DEF WorkerSpec, LeaseLeavesOnlyItsOwner

-----------------------------------------------------------------------------
(* The inbound row.                                                         *)

\* The steps a turn takes after record_inbound let it through.
Underway == {"decide", "turn", "publish"}

\* An answered message has its inbound row, a turn under way has stored its
\* message, and one on a first delivery stored it itself, before any answer.
RowInv ==
  /\ \A e \in Envelope \ stored : replies[e] = 0
  /\ \A c \in Consumer : step[c] \in Underway => log[cur[c]] \in stored
  /\ stalls = 0 =>
       \A c \in Consumer :
         step[c] \in Underway /\ att[c] <= 1 => replies[log[cur[c]]] = 0

\* A step of a worker keeps the row invariant.
LEMMA RowWorkerStep ==
  ASSUME LeaseInv, RowInv, NEW c \in Consumer, WorkerStep(c) \/ Crash(c)
  PROVE  RowInv'
<1>a. /\ WorkerTypeOK /\ HoldersOwn /\ step \in [Consumer -> Step]
      /\ replies \in [Envelope -> Nat] /\ stored \subseteq Envelope
  BY DEF LeaseInv, WorkerTypeOK
<1>b. /\ log' = log /\ stalls' = stalls
      /\ \A d \in Consumer \ {c} :
           step'[d] = step[d] /\ cur'[d] = cur[d] /\ att'[d] = att[d]
  BY <1>a, WorkerFrame, LeaseSteps
<1>c. step'[c] \in Protected => cur'[c] = cur[c] /\ att'[c] = att[c]
  BY <1>a, LeaseSteps
<1>d. Underway \subseteq Protected /\ "idle" \notin Protected
  BY DEF Underway, Protected
<1>1. CASE Persist(c)
  <2>1. /\ stored' = stored \cup {log[cur[c]]} /\ replies' = replies
        /\ step' = [step EXCEPT ![c] =
             IF log[cur[c]] \in stored /\ att[c] <= 1 THEN "release" ELSE "decide"]
        /\ step[c] = "persist"
    BY <1>1 DEF Persist, Goto
  <2>2. log[cur[c]] \in Envelope
    BY <1>a, <2>1, TurnEntry
  <2>3. cur'[c] = cur[c] /\ att'[c] = att[c]
    BY <1>1 DEF Persist, Goto, vars, consumerVars
  <2> QED
    BY <1>a, <1>b, <2>1, <2>2, <2>3 DEF RowInv, Underway
<1>2. CASE PublishReply(c)
  <2>1. /\ replies' = [replies EXCEPT ![log[cur[c]]] = @ + 1] /\ stored' = stored
        /\ step' = [step EXCEPT ![c] = "release"] /\ step[c] = "publish"
    BY <1>2 DEF PublishReply, Goto
  <2>2. log[cur[c]] \in stored
    BY <2>1 DEF RowInv, Underway
  <2>3. \A e \in Envelope : e # log[cur[c]] => replies'[e] = replies[e]
    BY <1>a, <2>1
  <2>4. ASSUME stalls = 0, NEW d \in Consumer \ {c}, step[d] \in Underway
        PROVE  log[cur[d]] # log[cur[c]] /\ log[cur[d]] \in Envelope
    <3>1. step[c] \in Protected /\ step[d] \in Protected
      BY <1>d, <2>1, <2>4 DEF Underway
    <3> QED
      BY <1>a, <1>d, <2>4, <3>1, TurnEntry DEF HoldersOwn, Conv
  <2>5. step'[c] = "release" /\ "release" \notin Underway
    BY <1>a, <2>1 DEF Underway
  <2>6. \A e \in Envelope \ stored' : replies'[e] = 0
    BY <2>1, <2>2, <2>3 DEF RowInv
  <2>7. \A d \in Consumer : step'[d] \in Underway => log'[cur'[d]] \in stored'
    BY <1>b, <2>1, <2>5 DEF RowInv
  <2>8. ASSUME stalls' = 0, NEW d \in Consumer, step'[d] \in Underway, att'[d] <= 1
        PROVE  replies'[log'[cur'[d]]] = 0
    <3>1. d # c /\ stalls = 0 /\ step[d] \in Underway /\ att[d] <= 1
      BY <1>b, <2>5, <2>8
    <3> QED
      BY <1>b, <2>3, <2>4, <3>1 DEF RowInv
  <2> QED
    BY <2>6, <2>7, <2>8 DEF RowInv
<1>3. ASSUME UNCHANGED <<stored, replies>>,
             step'[c] \in Underway => step[c] \in Underway
      PROVE  RowInv'
  BY <1>b, <1>c, <1>d, <1>3 DEF RowInv
<1>4. CASE \/ Acquire(c) \/ LeaseTimeout(c) \/ LeaseLost(c) \/ Finish(c) \/ TurnRaises(c)
           \/ Dispatch(c) \/ LoopStep(c) \/ Crash(c)
  <2>1. UNCHANGED <<stored, replies>>
    BY <1>4 DEF Acquire, LeaseTimeout, LeaseLost, Finish, TurnRaises, Dispatch, LoopStep, Crash,
       workerVars
  <2>2. step' = step \/ \E to \in Step \ Underway : step' = [step EXCEPT ![c] = to]
    BY <1>4 DEF Acquire, LeaseTimeout, LeaseLost, Finish, TurnRaises, Dispatch, LoopStep, Crash,
       workerVars, Underway, Step, Protected
  <2> QED
    BY <1>a, <1>3, <2>1, <2>2
<1>5. CASE Admit(c) \/ PublishNotice(c) \/ Decide(c) \/ RunTurn(c)
  <2>1. UNCHANGED <<stored, replies>>
    BY <1>5 DEF Admit, PublishNotice, Decide, RunTurn
  <2>2. \/ step[c] \in Underway
        \/ \E to \in Step \ Underway : step' = [step EXCEPT ![c] = to]
    BY <1>5 DEF Admit, PublishNotice, Decide, RunTurn, Goto, Underway, Step, Protected
  <2> QED
    BY <1>a, <1>3, <2>1, <2>2
<1> QED
  BY <1>1, <1>2, <1>4, <1>5 DEF WorkerStep, TurnStep

\* The row invariant is inductive relative to the lease's.
LEMMA RowStep == LeaseInv /\ RowInv /\ [WorkerNext]_allVars => RowInv'
<1> SUFFICES ASSUME LeaseInv, RowInv, [WorkerNext]_allVars PROVE RowInv'
  OBVIOUS
<1>a. WorkerTypeOK /\ stalls \in Nat /\ "idle" \notin Underway
  BY DEF LeaseInv, WorkerTypeOK, Underway
<1>1. ASSUME NEW c \in Consumer, WorkerStep(c) \/ Crash(c) PROVE RowInv'
  BY <1>1, RowWorkerStep
<1>2. ASSUME NEW e \in Envelope, Publish(e) \/ ReplayDeadLetter(e), UNCHANGED workerVars
      PROVE  RowInv'
  BY <1>a, <1>2, DeliverFrame DEF RowInv
<1>3. ASSUME NEW k \in Conversation, LeaseExpires(k) PROVE RowInv'
  <2>1. UNCHANGED <<step, stored, replies, log, cur, att>>
    BY <1>3 DEF LeaseExpires, vars, streamVars, consumerVars
  <2>2. stalls' = 0 => stalls = 0
    BY <1>a, <1>3 DEF LeaseExpires
  <2> QED
    BY <2>1, <2>2 DEF RowInv
<1>4. CASE UNCHANGED <<workerVars, log, cur, att>>
  BY <1>4 DEF workerVars, RowInv
<1> QED
  BY <1>1, <1>2, <1>3, <1>4, EnvironmentSteps

\* A first delivery never answers a message that already has an answer.
THEOREM FirstDeliveryIsFirst == WorkerSpec => []RepeatsOnlyOnRetry
<1>1. WorkerInit => RowInv
  BY DEF WorkerInit, RowInv, Underway
<1>2. (LeaseInv /\ RowInv) => RepeatsOnlyOnRetry
  <2> SUFFICES ASSUME LeaseInv, RowInv, stalls = 0, NEW c \in Consumer,
                      step[c] = "publish", replies[log[cur[c]]] > 0, ~(att[c] > 1)
               PROVE  FALSE
    BY DEF RepeatsOnlyOnRetry
  <2>1. att[c] <= 1
    BY DEF LeaseInv, WorkerTypeOK, TypeOK, ConsumerType, CountCap
  <2>2. replies[log[cur[c]]] = 0
    BY <2>1 DEF RowInv, Underway
  <2> QED
    BY <2>2
<1> QED
  BY <1>1, <1>2, LeaseInvariant, RowStep, PTL DEF WorkerSpec

-----------------------------------------------------------------------------
(* No answer is lost: one replica, and no second copy of a message but a     *)
(* replayed one.  The skipping of stored duplicates is the danger: a message *)
(* whose row is stored and that no turn concluded must come back with an     *)
(* attempt above one.                                                        *)

\* The workload of the property: one replica, and platforms send no update twice.
OneReplica == ~Redelivery /\ \A c, d \in Consumer : c = d

\* A message that a turn has concluded, or that the dead-letter stream keeps.
Buried(e) == \E i \in buried : log[i] = e
Settled(e) == e \in concluded \/ Buried(e)

\* Copies of a message come from the dead-letter stream, and a stored message
\* from the stream.
CopiesAreReplays ==
  /\ \A i, j \in 1..Len(log) : log[i] = log[j] /\ i # j => Buried(log[i])
  /\ \A e \in Envelope : dead[e] > 0 => Buried(e)
  /\ \A e \in stored : \E i \in 1..Len(log) : log[i] = e
  /\ buried \subseteq 1..Len(log)

\* What a worker holds was delivered to it, and a claimed entry not for the first
\* time.
Held(c) ==
  /\ \A i \in batch[c] : i <= last
  /\ phase[c] = "stale" => \A i \in batch[c] : pending[i] >= 2
  /\ pc[c] \notin {"claim", "next"} /\ phase[c] = "stale" => att[c] >= 2
  /\ pc[c] = "claim" => phase[c] = "stale"

AttemptsCount ==
  /\ \A i \in EntryId : pending[i] > 0 => i <= last
  /\ \A c \in Consumer : Held(c)

\* A message whose row is stored and that is not settled is the one a turn works
\* on, or will be claimed: it is not among those read for the first time.
StoredIsResumed ==
  \A i \in 1..Len(log) : log[i] \in stored /\ ~Settled(log[i]) =>
    /\ i <= last
    /\ \A c \in Consumer : i \in batch[c] /\ phase[c] = "fresh" =>
         cur[c] = i /\ step[c] \in Underway

\* A turn that is over, and so a completed message, is settled.
OverIsSettled ==
  /\ \A c \in Consumer : step[c] = "release" => Settled(log[cur[c]])
  /\ \A e \in completed : Settled(e)

\* The inductive invariant, relative to the types and the stream's.
AnswerInv == CopiesAreReplays /\ AttemptsCount /\ StoredIsResumed /\ OverIsSettled

\* The context of a step: what is known before it.
AnswerContext == WorkerTypeOK /\ StreamInv /\ OneReplica /\ AnswerInv

\* The types the proofs below use.
LEMMA AnswerTypes ==
  ASSUME AnswerContext
  PROVE  /\ log \in Seq(Envelope) /\ Len(log) \in Nat /\ Len(log) <= MaxEntry /\ last \in 0..Len(log)
         /\ live \subseteq 1..Len(log) /\ stale \subseteq EntryId
         /\ pending \in [EntryId -> 0..CountCap]
         /\ pc \in [Consumer -> PC] /\ phase \in [Consumer -> {"stale", "fresh"}]
         /\ batch \in [Consumer -> SUBSET (1..Len(log))]
         /\ cur \in [Consumer -> EntryId \cup {0}] /\ att \in [Consumer -> 0..CountCap]
         /\ step \in [Consumer -> Step] /\ dead \in [Envelope -> Nat]
         /\ \A c \in Consumer : step[c] = "idle" <=> pc[c] # "handler"
         /\ \A i \in stale : pending[i] > 0
BY DEF AnswerContext, WorkerTypeOK, TypeOK, StreamType, ConsumerType, StreamInv, StaleArePending

\* What was settled stays so: nothing leaves the history.
LEMMA SettledStays ==
  ASSUME AnswerContext, NEW e, Settled(e), concluded \subseteq concluded', buried \subseteq buried',
         \A i \in 1..Len(log) : log'[i] = log[i]
  PROVE  Settled(e)'
<1>1. CASE e \in concluded
  BY <1>1 DEF Settled
<1>2. CASE Buried(e)
  <2>1. PICK i \in buried : log[i] = e
    BY <1>2 DEF Buried
  <2>2. i \in 1..Len(log)
    BY <2>1 DEF AnswerContext, AnswerInv, CopiesAreReplays
  <2>3. i \in buried' /\ log'[i] = e
    BY <2>1, <2>2
  <2>4. Buried(e)'
    BY <2>3 DEF Buried
  <2> QED
    BY <2>4 DEF Settled
<1> QED
  BY <1>1, <1>2 DEF Settled

\* A step that neither adds nor buries an entry, nor stores a row, makes no copy.
LEMMA CopiesStay ==
  ASSUME AnswerContext, UNCHANGED <<log, dead, stored, buried>>
  PROVE  CopiesAreReplays'
BY DEF AnswerContext, AnswerInv, CopiesAreReplays, Buried

\* A step that keeps what is held and delivered keeps the attempts.
LEMMA AttemptsStay ==
  ASSUME AnswerContext, UNCHANGED <<last, pending, batch, phase, pc, att>>
  PROVE  AttemptsCount'
BY DEF AnswerContext, AnswerInv, AttemptsCount, Held

\* A step of the one replica that lets go of its entry, or takes no further ones
\* in, leaves every stored message resumable.
LEMMA ResumedStays ==
  ASSUME AnswerContext, NEW c \in Consumer, UNCHANGED <<log, stored>>, last' >= last, last' \in Nat,
         concluded \subseteq concluded', buried \subseteq buried',
         \A i \in batch'[c] : phase'[c] = "fresh" /\ i <= last =>
           i \in batch[c] /\ phase[c] = "fresh",
         \A i \in batch'[c] : i = cur[c] /\ step[c] \in Underway =>
           Settled(log[i])' \/ (cur'[c] = i /\ step'[c] \in Underway)
  PROVE  StoredIsResumed'
<1> SUFFICES ASSUME NEW i \in 1..Len(log), log[i] \in stored, ~Settled(log[i])'
             PROVE  /\ i <= last'
                    /\ \A d \in Consumer : i \in batch'[d] /\ phase'[d] = "fresh" =>
                         cur'[d] = i /\ step'[d] \in Underway
  BY DEF StoredIsResumed, Settled, Buried
<1>1. ~Settled(log[i])
  BY SettledStays
<1>2. /\ i <= last
      /\ i \in batch[c] /\ phase[c] = "fresh" => cur[c] = i /\ step[c] \in Underway
  BY <1>1 DEF AnswerContext, AnswerInv, StoredIsResumed
<1>3. \A d \in Consumer : d = c
  BY DEF AnswerContext, OneReplica
<1>4. i <= last'
  BY <1>2, AnswerTypes
<1>5. ASSUME i \in batch'[c], phase'[c] = "fresh" PROVE cur'[c] = i /\ step'[c] \in Underway
  BY <1>2, <1>5
<1> QED
  BY <1>3, <1>4, <1>5

\* A turn that comes to its release with a settled message, and a handler run that
\* completes only settled ones, keep the last part.
LEMMA OverStays ==
  ASSUME AnswerContext, NEW c \in Consumer,
         concluded \subseteq concluded', buried \subseteq buried',
         \A i \in 1..Len(log) : log'[i] = log[i],
         step'[c] = "release" => Settled(log[cur[c]])',
         \A e \in completed' : e \in completed \/ Settled(e)'
  PROVE  OverIsSettled'
<1>1. \A d \in Consumer : d = c
  BY DEF AnswerContext, OneReplica
<1>2. ASSUME NEW e \in completed' PROVE Settled(e)'
  <2>1. CASE e \in completed
    <3>1. Settled(e)
      BY <2>1 DEF AnswerContext, AnswerInv, OverIsSettled
    <3> QED
      BY <3>1, SettledStays
  <2> QED
    BY <1>2, <2>1
<1> QED
  BY <1>1, <1>2 DEF OverIsSettled

\* A step within the handler: the turn goes on, or its message is settled.
LEMMA TurnMoves ==
  ASSUME AnswerContext, NEW c \in Consumer, UNCHANGED <<vars, stored>>,
         concluded \subseteq concluded',
         step[c] \in Underway => step'[c] \in Underway \/ Settled(log[cur[c]])',
         step'[c] = "release" => Settled(log[cur[c]])'
  PROVE  AnswerInv'
<1>1. /\ UNCHANGED <<log, last, pending, dead, completed, buried>>
      /\ UNCHANGED <<batch, phase, pc, cur, att>>
  BY DEF vars, streamVars, consumerVars, historyVars
<1>2. CopiesAreReplays' /\ AttemptsCount'
  BY <1>1, CopiesStay, AttemptsStay
<1>3. StoredIsResumed'
  <2>1. last' >= last /\ last' \in Nat
    BY <1>1, AnswerTypes
  <2>2. \A i \in batch'[c] : i = cur[c] /\ step[c] \in Underway =>
           Settled(log[i])' \/ (cur'[c] = i /\ step'[c] \in Underway)
    <3> SUFFICES ASSUME step[c] \in Underway, ~(step'[c] \in Underway)
                 PROVE  \A i \in batch'[c] : i = cur[c] => Settled(log[i])'
      BY <1>1
    <3>1. Settled(log[cur[c]])'
      OBVIOUS
    <3> QED
      BY <1>1, <3>1 DEF Settled, Buried
  <2>3. buried \subseteq buried'
    BY <1>1
  <2>4. \A i \in batch'[c] : phase'[c] = "fresh" /\ i <= last =>
           i \in batch[c] /\ phase[c] = "fresh"
    BY <1>1
  <2>5. UNCHANGED <<log, stored>>
    BY <1>1
  <2> QED
    BY <2>1, <2>2, <2>3, <2>4, <2>5, ResumedStays
<1>4. OverIsSettled'
  BY <1>1, OverStays
<1> QED
  BY <1>2, <1>3, <1>4 DEF AnswerInv

\* On a first delivery a stored message is a settled one: were it not, it would
\* not have been read (agent_worker.py, _handle_serialized).
LEMMA SkippedIsSettled ==
  ASSUME AnswerContext, NEW c \in Consumer, step[c] = "persist", att[c] <= 1,
         log[cur[c]] \in stored
  PROVE  Settled(log[cur[c]])
<1>1. pc[c] = "handler"
  BY AnswerTypes
<1>2. cur[c] \in 1..Len(log) /\ cur[c] \in batch[c]
  BY <1>1, CurrentEntry DEF AnswerContext, WorkerTypeOK
<1>3. phase[c] = "fresh"
  <2>1. phase[c] = "stale" => att[c] >= 2
    BY <1>1 DEF AnswerContext, AnswerInv, AttemptsCount, Held
  <2>2. att[c] \in 0..CountCap
    BY AnswerTypes
  <2>3. ~(att[c] >= 2)
    BY <2>2 DEF CountCap
  <2> QED
    BY <2>1, <2>3, AnswerTypes
<1> QED
  BY <1>2, <1>3 DEF AnswerContext, AnswerInv, StoredIsResumed, Underway

\* record_inbound stores the message in hand, or skips a settled one.
LEMMA AnswerPersist ==
  ASSUME AnswerContext, NEW c \in Consumer, Persist(c)
  PROVE  AnswerInv'
<1>1. /\ UNCHANGED <<log, last, pending, dead, completed, buried>>
      /\ UNCHANGED <<batch, phase, pc, cur, att, concluded>>
      /\ stored' = stored \cup {log[cur[c]]} /\ step[c] = "persist"
      /\ step' = [step EXCEPT ![c] =
           IF log[cur[c]] \in stored /\ att[c] <= 1 THEN "release" ELSE "decide"]
  BY DEF Persist, Goto, vars, streamVars, consumerVars, historyVars
<1>2. /\ pc[c] = "handler" /\ step \in [Consumer -> Step]
      /\ cur[c] \in 1..Len(log) /\ cur[c] \in batch[c]
  <2>1. pc[c] = "handler" /\ step \in [Consumer -> Step]
    BY <1>1, AnswerTypes
  <2> QED
    BY <2>1, CurrentEntry DEF AnswerContext, WorkerTypeOK
<1>3. CASE log[cur[c]] \in stored /\ att[c] <= 1
  <2>1. Settled(log[cur[c]])
    BY <1>1, <1>3, SkippedIsSettled
  <2>2. Settled(log[cur[c]])'
    BY <1>1, <2>1, SettledStays
  <2>3. stored' = stored /\ step'[c] = "release"
    BY <1>1, <1>2, <1>3
  <2>4. UNCHANGED vars
    BY DEF Persist, Goto
  <2> QED
    BY <1>1, <2>2, <2>3, <2>4, TurnMoves
<1>4. CASE ~(log[cur[c]] \in stored /\ att[c] <= 1)
  <2>1. step'[c] = "decide" /\ "decide" \in Underway
    BY <1>1, <1>2, <1>4 DEF Underway
  <2>2. \A e : Settled(e)' <=> Settled(e)
    BY <1>1 DEF Settled, Buried
  <2>3. CopiesAreReplays'
    BY <1>1, <1>2 DEF AnswerContext, AnswerInv, CopiesAreReplays, Buried
  <2>4. AttemptsCount'
    BY <1>1, AttemptsStay
  <2>5. OverIsSettled'
    BY <1>1, <2>1, OverStays
  <2>6. \A d \in Consumer : d = c
    BY DEF AnswerContext, OneReplica
  <2>7. ASSUME NEW i \in 1..Len(log), log[i] \in stored', ~Settled(log[i])
        PROVE  i <= last /\ (i \in batch[c] /\ phase[c] = "fresh" => cur[c] = i)
    <3>1. CASE log[i] \in stored
      BY <2>7, <3>1 DEF AnswerContext, AnswerInv, StoredIsResumed
    <3>2. CASE log[i] = log[cur[c]]
      <4>1. i = cur[c]
        BY <1>2, <2>7, <3>2 DEF AnswerContext, AnswerInv, CopiesAreReplays, Settled
      <4>2. cur[c] <= last
        BY <1>2 DEF AnswerContext, AnswerInv, AttemptsCount, Held
      <4> QED
        BY <4>1, <4>2
    <3> QED
      BY <1>1, <2>7, <3>1, <3>2
  <2>8. StoredIsResumed'
    BY <1>1, <2>1, <2>2, <2>6, <2>7 DEF StoredIsResumed
  <2> QED
    BY <2>3, <2>4, <2>5, <2>8 DEF AnswerInv
<1> QED
  BY <1>3, <1>4

\* The other steps of a turn that keep it in the handler: each one that ends it
\* concludes the message.
LEMMA AnswerTurn ==
  ASSUME AnswerContext, NEW c \in Consumer,
         \/ Acquire(c) \/ Admit(c) \/ PublishNotice(c) \/ Decide(c) \/ RunTurn(c)
         \/ PublishReply(c)
  PROVE  AnswerInv'
<1>1. step \in [Consumer -> Step]
  BY AnswerTypes
<1>2. UNCHANGED <<vars, stored>> /\ concluded \subseteq concluded'
  BY DEF Acquire, Admit, PublishNotice, Decide, RunTurn, PublishReply, Goto, Conclude
<1>3. ASSUME concluded' = concluded \cup {log[cur[c]]} PROVE Settled(log[cur[c]])'
  <2>1. log' = log /\ cur' = cur
    BY <1>2 DEF vars, streamVars, consumerVars
  <2> QED
    BY <1>3, <2>1 DEF Settled
<1>4. CASE concluded' = concluded \cup {log[cur[c]]}
  BY <1>2, <1>3, <1>4, TurnMoves
<1>5. CASE /\ step[c] \in Underway => step'[c] \in Underway
           /\ step'[c] # "release"
  BY <1>2, <1>5, TurnMoves
<1>6. CASE Acquire(c)
  BY <1>1, <1>5, <1>6 DEF Acquire, Underway
<1>7. CASE Admit(c)
  BY <1>1, <1>4, <1>5, <1>7 DEF Admit, Goto, Conclude, Underway
<1>8. CASE PublishNotice(c) \/ PublishReply(c)
  BY <1>4, <1>8 DEF PublishNotice, PublishReply, Conclude
<1>9. CASE Decide(c)
  BY <1>1, <1>4, <1>5, <1>9 DEF Decide, Goto, Conclude, Underway
<1>10. CASE RunTurn(c)
  BY <1>1, <1>4, <1>5, <1>10 DEF RunTurn, Goto, Conclude, Underway
<1> QED
  BY <1>6, <1>7, <1>8, <1>9, <1>10

\* A replica that drops its entry without an ack drops nothing else: a failed
\* delivery, or a lost batch.
LEMMA AnswerDrops ==
  ASSUME AnswerContext, NEW c \in Consumer, HandlerFails(c) \/ IterationFails(c),
         step' = [step EXCEPT ![c] = "idle"], UNCHANGED <<stored, concluded>>
  PROVE  AnswerInv'
<1>1. /\ UNCHANGED <<log, last, pending, dead, completed, buried, stored, concluded>>
      /\ \/ pc' = [pc EXCEPT ![c] = "next"] /\ phase' = phase
         \/ pc' = [pc EXCEPT ![c] = "claim"] /\ phase' = [phase EXCEPT ![c] = "stale"]
      /\ batch' = [batch EXCEPT ![c] = @ \ {cur[c]}] \/ batch' = [batch EXCEPT ![c] = {}]
  BY DEF HandlerFails, IterationFails, streamVars, historyVars
<1>2. /\ batch'[c] \subseteq batch[c] \ {cur[c]} \/ batch'[c] = {}
      /\ \/ pc'[c] = "next" /\ phase'[c] = phase[c]
         \/ pc'[c] = "claim" /\ phase'[c] = "stale"
      /\ step'[c] = "idle"
  BY <1>1, AnswerTypes
<1>3. \A d \in Consumer : d = c
  BY DEF AnswerContext, OneReplica
<1>4. CopiesAreReplays'
  BY <1>1, CopiesStay
<1>5. AttemptsCount'
  <2>1. Held(c)
    BY DEF AnswerContext, AnswerInv, AttemptsCount
  <2>2. Held(c)'
    <3>1. batch'[c] \subseteq batch[c] /\ UNCHANGED <<last, pending>>
      BY <1>1, <1>2
    <3>2. phase'[c] = "stale" => phase[c] = "stale" \/ batch'[c] = {}
      BY <1>1, AnswerTypes DEF HandlerFails, IterationFails
    <3> QED
      BY <1>2, <2>1, <3>1, <3>2 DEF Held
  <2>3. \A i \in EntryId : pending'[i] > 0 => i <= last'
    BY <1>1 DEF AnswerContext, AnswerInv, AttemptsCount
  <2> QED
    BY <1>3, <2>2, <2>3 DEF AttemptsCount
<1>6. StoredIsResumed'
  <2>1. last' >= last /\ last' \in Nat
    BY <1>1, AnswerTypes
  <2>2. \A i \in batch'[c] : phase'[c] = "fresh" => i \in batch[c] /\ phase[c] = "fresh"
    BY <1>1, <1>2
  <2>3. \A i \in batch'[c] : i # cur[c]
    BY <1>2
  <2> QED
    BY <1>1, <2>1, <2>2, <2>3, ResumedStays
<1>7. OverIsSettled'
  BY <1>1, <1>2, OverStays
<1> QED
  BY <1>4, <1>5, <1>6, <1>7 DEF AnswerInv

\* The turn is over: what it completes is settled.
LEMMA AnswerFinish ==
  ASSUME AnswerContext, NEW c \in Consumer, Finish(c)
  PROVE  AnswerInv'
<1>1. /\ UNCHANGED <<log, last, pending, dead, buried, stored, concluded, phase, batch, cur, att>>
      /\ completed' = completed \cup {log[cur[c]]} /\ step[c] = "release"
      /\ pc[c] = "handler" /\ pc' = [pc EXCEPT ![c] = IF Deduped THEN "mark" ELSE "ack"]
      /\ step' = [step EXCEPT ![c] = "idle"]
  BY DEF Finish, HandlerSucceeds, streamVars
<1>2. step'[c] = "idle" /\ pc'[c] \notin {"claim", "next"} /\ step[c] \notin Underway
  BY <1>1, AnswerTypes DEF Underway
<1>3. \A d \in Consumer : d = c
  BY DEF AnswerContext, OneReplica
<1>4. CopiesAreReplays'
  BY <1>1, CopiesStay
<1>5. AttemptsCount'
  BY <1>1, <1>2, <1>3 DEF AnswerContext, AnswerInv, AttemptsCount, Held
<1>6. StoredIsResumed'
  <2>1. last' >= last /\ last' \in Nat
    BY <1>1, AnswerTypes
  <2> QED
    BY <1>1, <1>2, <2>1, ResumedStays
<1>7. OverIsSettled'
  <2>1. Settled(log[cur[c]])
    BY <1>1 DEF AnswerContext, AnswerInv, OverIsSettled
  <2>2. \A e \in completed' : e \in completed \/ Settled(e)'
    BY <1>1, <2>1 DEF Settled, Buried
  <2> QED
    BY <1>1, <1>2, <2>2, OverStays
<1> QED
  BY <1>4, <1>5, <1>6, <1>7 DEF AnswerInv

\* _handle up to the handler call takes an entry it already holds.
LEMMA AnswerDispatch ==
  ASSUME AnswerContext, NEW c \in Consumer, Dispatch(c)
  PROVE  AnswerInv'
<1>1. /\ UNCHANGED <<log, last, pending, dead, buried, completed, stored, concluded>>
      /\ UNCHANGED <<phase, batch, cur, att>>
      /\ pc[c] = "dedupe"
      /\ \E to \in {"bury", "ack", "handler"} : pc' = [pc EXCEPT ![c] = to]
      /\ step' = [step EXCEPT ![c] = IF pc'[c] = "handler" THEN "acquire" ELSE "idle"]
  BY DEF Dispatch, CheckOnce, streamVars
<1>2. /\ step'[c] # "release" /\ pc'[c] \notin {"claim", "next"} /\ step[c] \notin Underway
  BY <1>1, AnswerTypes DEF Underway
<1>3. \A d \in Consumer : d = c
  BY DEF AnswerContext, OneReplica
<1>4. CopiesAreReplays'
  BY <1>1, CopiesStay
<1>5. AttemptsCount'
  BY <1>1, <1>2, <1>3 DEF AnswerContext, AnswerInv, AttemptsCount, Held
<1>6. StoredIsResumed'
  <2>1. last' >= last /\ last' \in Nat
    BY <1>1, AnswerTypes
  <2> QED
    BY <1>1, <1>2, <2>1, ResumedStays
<1>7. OverIsSettled'
  BY <1>1, <1>2, OverStays
<1> QED
  BY <1>4, <1>5, <1>6, <1>7 DEF AnswerInv

\* claim_stale takes entries that were delivered before, and counts them again.
LEMMA AnswerClaim ==
  ASSUME AnswerContext, NEW c \in Consumer, ClaimStale(c), UNCHANGED workerVars
  PROVE  AnswerInv'
<1>1. PICK B \in SUBSET stale :
        /\ pending' = [i \in EntryId |->
             IF i \notin B THEN pending[i]
             ELSE IF i \notin live THEN 0
             ELSE IF pending[i] < CountCap THEN pending[i] + 1 ELSE CountCap]
        /\ batch' = [batch EXCEPT ![c] = B \cap live]
        /\ pc' = [pc EXCEPT ![c] = "next"] /\ pc[c] = "claim"
        /\ UNCHANGED <<log, last, dead, buried, completed, phase, cur, att>>
  BY DEF ClaimStale, Batches, historyVars
<1>2. /\ UNCHANGED <<step, stored, concluded>> /\ step[c] = "idle"
      /\ batch'[c] = B \cap live /\ pc'[c] = "next"
  BY <1>1, AnswerTypes DEF workerVars
<1>3. \A d \in Consumer : d = c
  BY DEF AnswerContext, OneReplica
<1>4. CopiesAreReplays'
  BY <1>1, <1>2, CopiesStay
<1>a. phase[c] = "stale" /\ \A i \in EntryId : pending[i] > 0 => i <= last
  BY <1>1 DEF AnswerContext, AnswerInv, AttemptsCount, Held
<1>b. \A i \in B : i \in EntryId /\ pending[i] \in 1..CountCap
  BY AnswerTypes
<1>5. AttemptsCount'
  <2>1. ASSUME NEW i \in EntryId, pending'[i] > 0 PROVE i <= last'
    <3>1. pending[i] > 0
      BY <1>1, <1>b, <2>1
    <3> QED
      BY <1>1, <1>a, <3>1
  <2>2. ASSUME NEW i \in B \cap live PROVE i <= last' /\ pending'[i] >= 2
    <3>1. i \in EntryId /\ pending[i] \in 1..CountCap
      BY <1>b
    <3>2. pending'[i] = IF pending[i] < CountCap THEN pending[i] + 1 ELSE CountCap
      BY <1>1, <3>1, <2>2
    <3>3. CountCap \in Nat /\ CountCap >= 2
      BY LimitAssumption DEF CountCap
    <3>4. pending'[i] >= 2
      BY <3>1, <3>2, <3>3
    <3> QED
      BY <1>1, <1>a, <3>1, <3>4
  <2> QED
    BY <1>1, <1>2, <1>3, <1>a, <2>1, <2>2 DEF AttemptsCount, Held
<1>6. StoredIsResumed'
  <2>1. last' >= last /\ last' \in Nat
    BY <1>1, AnswerTypes
  <2>2. phase'[c] # "fresh" /\ step[c] \notin Underway
    BY <1>1, <1>2, <1>a DEF Underway
  <2> QED
    BY <1>1, <1>2, <2>1, <2>2, ResumedStays
<1>7. OverIsSettled'
  BY <1>1, <1>2, OverStays
<1> QED
  BY <1>4, <1>5, <1>6, <1>7 DEF AnswerInv

\* read_new takes entries that were never delivered, so none that is stored.
LEMMA AnswerRead ==
  ASSUME AnswerContext, NEW c \in Consumer, ReadNew(c), UNCHANGED workerVars
  PROVE  AnswerInv'
<1>1. PICK B \in SUBSET {i \in live : i > last} :
        /\ batch' = [batch EXCEPT ![c] = B]
        /\ pending' = [i \in EntryId |-> IF i \in B THEN 1 ELSE pending[i]]
        /\ \E m \in B \cup {last} : (\A j \in B : j <= m) /\ last' = m
        /\ pc' = [pc EXCEPT ![c] = IF B = {} THEN "claim" ELSE "next"]
        /\ phase' = [phase EXCEPT ![c] = IF B = {} THEN "stale" ELSE "fresh"]
        /\ UNCHANGED <<log, dead, buried, completed, cur, att>> /\ pc[c] = "next"
  BY DEF ReadNew, Batches, historyVars
<1>2. /\ UNCHANGED <<step, stored, concluded>> /\ step[c] = "idle"
      /\ batch'[c] = B /\ pc'[c] \in {"claim", "next"}
      /\ pc'[c] = "claim" => B = {}
      /\ phase'[c] = IF B = {} THEN "stale" ELSE "fresh"
  BY <1>1, AnswerTypes DEF workerVars
<1>3. \A d \in Consumer : d = c
  BY DEF AnswerContext, OneReplica
<1>4. CopiesAreReplays'
  BY <1>1, <1>2, CopiesStay
<1>a. \A i \in B : i \in Nat /\ i > last
  BY AnswerTypes
<1>b. last' \in Nat /\ last' >= last /\ \A j \in B : j <= last'
  BY <1>1, <1>a, AnswerTypes
<1>5. AttemptsCount'
  <2>1. ASSUME NEW i \in EntryId, pending'[i] > 0 PROVE i <= last'
    <3>1. CASE i \in B
      BY <1>b, <3>1
    <3>2. CASE i \notin B
      <4>1. pending[i] > 0
        BY <1>1, <2>1, <3>2
      <4>2. i <= last
        BY <4>1 DEF AnswerContext, AnswerInv, AttemptsCount
      <4> QED
        BY <1>b, <4>2, AnswerTypes DEF EntryId
    <3> QED
      BY <3>1, <3>2
  <2>2. Held(c)'
    <3>1. phase'[c] = "stale" => batch'[c] = {}
      BY <1>2
    <3>2. \A i \in batch'[c] : i <= last'
      BY <1>2, <1>b
    <3>3. pc'[c] \in {"claim", "next"} /\ (pc'[c] = "claim" => phase'[c] = "stale")
      BY <1>2
    <3> QED
      BY <3>1, <3>2, <3>3 DEF Held
  <2> QED
    BY <1>3, <2>1, <2>2 DEF AttemptsCount
<1>6. StoredIsResumed'
  <2>1. \A i \in batch'[c] : ~(i <= last)
    BY <1>2, <1>a, AnswerTypes
  <2>2. step[c] \notin Underway
    BY <1>2 DEF Underway
  <2> QED
    BY <1>1, <1>2, <1>b, <2>1, <2>2, ResumedStays
<1>7. OverIsSettled'
  BY <1>1, <1>2, OverStays
<1> QED
  BY <1>4, <1>5, <1>6, <1>7 DEF AnswerInv

\* The next entry of a list is taken with the attempt it was delivered with.
LEMMA AnswerTake ==
  ASSUME AnswerContext, NEW c \in Consumer, TakeStale(c) \/ TakeFresh(c) \/ EndIteration(c),
         UNCHANGED workerVars
  PROVE  AnswerInv'
<1>1. /\ UNCHANGED <<log, last, pending, dead, buried, completed, batch>>
      /\ UNCHANGED <<step, stored, concluded>>
      /\ pc[c] = "next"
  BY DEF TakeStale, TakeFresh, EndIteration, streamVars, historyVars, workerVars
<1>2. step[c] = "idle" /\ step[c] \notin Underway
  BY <1>1, AnswerTypes DEF Underway
<1>3. \A d \in Consumer : d = c
  BY DEF AnswerContext, OneReplica
<1>4. CopiesAreReplays'
  BY <1>1, CopiesStay
<1>5. AttemptsCount'
  <2>1. Held(c) /\ \A i \in EntryId : pending[i] > 0 => i <= last
    BY DEF AnswerContext, AnswerInv, AttemptsCount
  <2>2. CASE TakeStale(c)
    <3>1. PICK i \in batch[c] : att' = [att EXCEPT ![c] = pending[i]]
      BY <2>2 DEF TakeStale
    <3>2. phase' = phase /\ phase[c] = "stale" /\ pc'[c] # "claim"
      BY <2>2, AnswerTypes DEF TakeStale
    <3>3. att'[c] = pending[i] /\ pending[i] >= 2
      BY <2>1, <3>1, <3>2, AnswerTypes DEF Held
    <3> QED
      BY <1>1, <1>3, <2>1, <3>2, <3>3 DEF AttemptsCount, Held
  <2>3. CASE TakeFresh(c)
    <3>1. phase' = phase /\ phase[c] = "fresh" /\ pc'[c] # "claim"
      BY <2>3, AnswerTypes DEF TakeFresh
    <3> QED
      BY <1>1, <1>3, <2>1, <3>1 DEF AttemptsCount, Held
  <2>4. CASE EndIteration(c)
    <3>1. batch[c] = {} /\ phase'[c] = "stale" /\ pc'[c] = "claim"
      BY <2>4, AnswerTypes DEF EndIteration
    <3> QED
      BY <1>1, <1>3, <2>1, <3>1 DEF AttemptsCount, Held
  <2> QED
    BY <2>2, <2>3, <2>4
<1>6. StoredIsResumed'
  <2>1. last' >= last /\ last' \in Nat
    BY <1>1, AnswerTypes
  <2>2. \A i \in batch'[c] : phase'[c] = "fresh" => i \in batch[c] /\ phase[c] = "fresh"
    BY <1>1, AnswerTypes DEF TakeStale, TakeFresh, EndIteration
  <2> QED
    BY <1>1, <1>2, <2>1, <2>2, ResumedStays
<1>7. OverIsSettled'
  <2>1. step'[c] # "release"
    BY <1>1, <1>2
  <2> QED
    BY <1>1, <2>1, OverStays
<1> QED
  BY <1>4, <1>5, <1>6, <1>7 DEF AnswerInv

\* An ack lets go of its entry.
LEMMA AnswerAck ==
  ASSUME AnswerContext, NEW c \in Consumer, Ack(c), UNCHANGED workerVars
  PROVE  AnswerInv'
<1>1. /\ pending' = [pending EXCEPT ![cur[c]] = 0]
      /\ batch' = [batch EXCEPT ![c] = @ \ {cur[c]}]
      /\ pc' = [pc EXCEPT ![c] = "next"] /\ pc[c] = "ack"
      /\ UNCHANGED <<log, last, dead, buried, completed, phase>>
      /\ UNCHANGED <<step, stored, concluded>>
  BY DEF Ack, historyVars, workerVars
<1>2. step[c] = "idle" /\ step[c] \notin Underway
  BY <1>1, AnswerTypes DEF Underway
<1>a. pc'[c] = "next" /\ batch'[c] = batch[c] \ {cur[c]}
  BY <1>1, AnswerTypes
<1>b. \A i \in EntryId : pending'[i] = IF i = cur[c] THEN 0 ELSE pending[i]
  BY <1>1, AnswerTypes
<1>3. \A d \in Consumer : d = c
  BY DEF AnswerContext, OneReplica
<1>4. CopiesAreReplays'
  BY <1>1, CopiesStay
<1>5. AttemptsCount'
  <2>1. Held(c) /\ \A i \in EntryId : pending[i] > 0 => i <= last
    BY DEF AnswerContext, AnswerInv, AttemptsCount
  <2>2. \A i \in batch[c] : i \in EntryId
    BY AnswerTypes, BoundAssumption DEF EntryId
  <2>3. Held(c)'
    <3>1. ASSUME NEW i \in batch'[c] PROVE i <= last' /\ (phase'[c] = "stale" => pending'[i] >= 2)
      <4>1. i \in batch[c] /\ i \in EntryId /\ pending'[i] = pending[i]
        BY <1>a, <1>b, <2>2, <3>1
      <4> QED
        BY <1>1, <2>1, <4>1 DEF Held
    <3> QED
      BY <1>a, <3>1 DEF Held
  <2>4. \A i \in EntryId : pending'[i] > 0 => i <= last'
    BY <1>1, <1>b, <2>1
  <2> QED
    BY <1>3, <2>3, <2>4 DEF AttemptsCount
<1>6. StoredIsResumed'
  <2>1. last' >= last /\ last' \in Nat
    BY <1>1, AnswerTypes
  <2>2. \A i \in batch'[c] : phase'[c] = "fresh" => i \in batch[c] /\ phase[c] = "fresh"
    BY <1>1, <1>a
  <2> QED
    BY <1>1, <1>2, <2>1, <2>2, ResumedStays
<1>7. OverIsSettled'
  BY <1>1, <1>2, OverStays
<1> QED
  BY <1>4, <1>5, <1>6, <1>7 DEF AnswerInv

\* A mark or a burial leaves the lists alone; what is buried is settled.
LEMMA AnswerMark ==
  ASSUME AnswerContext, NEW c \in Consumer, MarkOnce(c) \/ Bury(c), UNCHANGED workerVars
  PROVE  AnswerInv'
<1>1. /\ UNCHANGED <<log, last, pending, completed, phase, batch, cur, att>>
      /\ UNCHANGED <<step, stored, concluded>>
      /\ pc' = [pc EXCEPT ![c] = "ack"] /\ pc[c] \in {"mark", "bury"}
  BY DEF MarkOnce, Bury, historyVars, workerVars
<1>2. step[c] = "idle" /\ step[c] \notin Underway /\ pc'[c] = "ack"
  BY <1>1, AnswerTypes DEF Underway
<1>3. \A d \in Consumer : d = c
  BY DEF AnswerContext, OneReplica
<1>a. cur[c] \in 1..Len(log) /\ log[cur[c]] \in Envelope
  BY <1>1, CurrentEntry DEF AnswerContext, WorkerTypeOK
<1>b. buried \subseteq buried'
  BY DEF MarkOnce, Bury, historyVars
<1>4. CopiesAreReplays'
  <2>1. CASE MarkOnce(c)
    BY <1>1, <2>1, CopiesStay DEF MarkOnce, historyVars
  <2>2. CASE Bury(c)
    <3>1. dead' = [dead EXCEPT ![log[cur[c]]] = @ + 1] /\ buried' = buried \cup {cur[c]}
      BY <2>2 DEF Bury
    <3>2. \A e \in Envelope : e # log[cur[c]] => dead'[e] = dead[e]
      BY <3>1, AnswerTypes
    <3>3. \A e : Buried(e)' <=> Buried(e) \/ e = log[cur[c]]
      BY <1>1, <3>1 DEF Buried
    <3> QED
      BY <1>1, <1>a, <3>1, <3>2, <3>3 DEF AnswerContext, AnswerInv, CopiesAreReplays
  <2> QED
    BY <2>1, <2>2
<1>5. AttemptsCount'
  <2>1. Held(c)
    BY DEF AnswerContext, AnswerInv, AttemptsCount
  <2>2. pc[c] \notin {"claim", "next"}
    BY <1>1
  <2>3. Held(c)'
    BY <1>1, <1>2, <2>1, <2>2 DEF Held
  <2> QED
    BY <1>1, <1>3, <2>3 DEF AnswerContext, AnswerInv, AttemptsCount
<1>6. StoredIsResumed'
  <2>1. last' >= last /\ last' \in Nat
    BY <1>1, AnswerTypes
  <2> QED
    BY <1>1, <1>2, <1>b, <2>1, ResumedStays
<1>7. OverIsSettled'
  BY <1>1, <1>2, <1>b, OverStays
<1> QED
  BY <1>4, <1>5, <1>6, <1>7 DEF AnswerInv

\* A new entry: a message not seen before, which has no row, or a copy of a dead
\* letter, which is settled.
LEMMA AnswerAdd ==
  ASSUME AnswerContext, NEW e \in Envelope,
         Deliver(e) \/ (ReplayDeadLetter(e) /\ UNCHANGED workerVars)
  PROVE  AnswerInv'
<1>1. /\ Add(e) /\ UNCHANGED <<last, pending, buried, completed, pc, phase, batch, cur, att>>
      /\ UNCHANGED <<step, stored, concluded>>
      /\ \A f \in Envelope : dead'[f] > 0 => dead[f] > 0
  <2>1. CASE Deliver(e)
    BY <2>1 DEF Deliver, Publish, consumerVars, historyVars, workerVars
  <2>2. CASE ReplayDeadLetter(e) /\ UNCHANGED workerVars
    <3>1. /\ dead' = [dead EXCEPT ![e] = @ - 1] /\ dead[e] > 0
          /\ Add(e) /\ UNCHANGED <<last, pending, buried, completed, pc, phase, batch, cur, att>>
          /\ UNCHANGED <<step, stored, concluded>>
      BY <2>2 DEF ReplayDeadLetter, consumerVars, historyVars, workerVars
    <3>2. ASSUME NEW f \in Envelope, dead'[f] > 0 PROVE dead[f] > 0
      BY <3>1, <3>2, AnswerTypes
    <3> QED
      BY <3>1, <3>2
  <2> QED
    BY <2>1, <2>2
<1>2. /\ log' \in Seq(Envelope) /\ Len(log') = Len(log) + 1
      /\ log' = Append(log, e) /\ \A i \in 1..Len(log) : log'[i] = log[i]
  BY <1>1, AddFacts DEF AnswerContext, WorkerTypeOK, TypeOK, Add
<1>3. log'[Len(log) + 1] = e
  BY <1>2, AnswerTypes
<1>4. 1..Len(log') = 1..Len(log) \cup {Len(log) + 1} /\ Len(log) + 1 \notin 1..Len(log)
  BY <1>2, AnswerTypes
<1>5. (\A i \in 1..Len(log) : log[i] # e) \/ Buried(e)
  BY AnswerTypes DEF Deliver, ReplayDeadLetter, AnswerContext, OneReplica, AnswerInv,
     CopiesAreReplays
<1>6. \A i \in buried : i \in 1..Len(log)
  BY DEF AnswerContext, AnswerInv, CopiesAreReplays
<1>7. \A f : Buried(f)' <=> Buried(f)
  BY <1>1, <1>2, <1>6 DEF Buried
<1>8. \A f : Settled(f)' <=> Settled(f)
  BY <1>1, <1>7 DEF Settled
<1>9. CopiesAreReplays'
  <2>1. ASSUME NEW i \in 1..Len(log'), NEW j \in 1..Len(log'), log'[i] = log'[j], i # j
        PROVE  Buried(log'[i])
    <3>1. CASE i \in 1..Len(log) /\ j \in 1..Len(log)
      BY <1>2, <2>1, <3>1 DEF AnswerContext, AnswerInv, CopiesAreReplays
    <3>2. CASE i = Len(log) + 1 /\ j \in 1..Len(log)
      BY <1>2, <1>3, <1>5, <2>1, <3>2
    <3>3. CASE j = Len(log) + 1 /\ i \in 1..Len(log)
      BY <1>2, <1>3, <1>5, <2>1, <3>3
    <3> QED
      BY <1>4, <2>1, <3>1, <3>2, <3>3
  <2>2. \A f \in Envelope : dead'[f] > 0 => Buried(f)
    BY <1>1 DEF AnswerContext, AnswerInv, CopiesAreReplays
  <2>3. ASSUME NEW f \in stored' PROVE \E i \in 1..Len(log') : log'[i] = f
    <3>1. PICK i \in 1..Len(log) : log[i] = f
      BY <1>1, <2>3 DEF AnswerContext, AnswerInv, CopiesAreReplays
    <3> QED
      BY <1>2, <1>4, <3>1
  <2>4. buried' \subseteq 1..Len(log')
    BY <1>1, <1>4, <1>6
  <2> QED
    BY <1>7, <2>1, <2>2, <2>3, <2>4 DEF CopiesAreReplays
<1>10. AttemptsCount'
  BY <1>1, AttemptsStay
<1>11. StoredIsResumed'
  <2>1. ASSUME NEW i \in 1..Len(log'), log'[i] \in stored, ~Settled(log'[i])
        PROVE  i \in 1..Len(log) /\ log[i] \in stored /\ ~Settled(log[i])
    <3>1. CASE i \in 1..Len(log)
      BY <1>2, <2>1, <3>1
    <3>2. CASE i = Len(log) + 1
      <4>1. e \in stored /\ ~Settled(e)
        BY <1>3, <2>1, <3>2
      <4>2. \E j \in 1..Len(log) : log[j] = e
        BY <4>1 DEF AnswerContext, AnswerInv, CopiesAreReplays
      <4> QED
        BY <1>5, <4>1, <4>2 DEF Settled
    <3> QED
      BY <1>4, <2>1, <3>1, <3>2
  <2>2. ASSUME NEW i \in 1..Len(log'), log'[i] \in stored', ~Settled(log'[i])
        PROVE  /\ i <= last'
               /\ \A c \in Consumer : i \in batch'[c] /\ phase'[c] = "fresh" =>
                    cur'[c] = i /\ step'[c] \in Underway
    <3>1. i \in 1..Len(log) /\ log[i] \in stored /\ ~Settled(log[i])
      BY <1>1, <2>1, <2>2
    <3> QED
      BY <1>1, <3>1 DEF AnswerContext, AnswerInv, StoredIsResumed
  <2> QED
    BY <1>8, <2>2 DEF StoredIsResumed
<1>12. OverIsSettled'
  <2>1. ASSUME NEW c \in Consumer, step'[c] = "release" PROVE Settled(log'[cur'[c]])
    <3>1. step[c] = "release" /\ cur'[c] = cur[c]
      BY <1>1, <2>1
    <3>2. cur[c] \in 1..Len(log)
      BY <3>1, TurnEntry DEF AnswerContext
    <3>3. Settled(log[cur[c]])
      BY <3>1 DEF AnswerContext, AnswerInv, OverIsSettled
    <3> QED
      BY <1>2, <3>1, <3>2, <3>3
  <2>2. \A f \in completed' : Settled(f)
    BY <1>1 DEF AnswerContext, AnswerInv, OverIsSettled
  <2> QED
    BY <1>8, <2>1, <2>2 DEF OverIsSettled
<1> QED
  BY <1>9, <1>10, <1>11, <1>12 DEF AnswerInv

\* Every step of the one replica and its environment keeps the invariant.
LEMMA AnswerStep == AnswerContext /\ [WorkerNext]_allVars => AnswerInv'
<1> SUFFICES ASSUME AnswerContext, [WorkerNext]_allVars PROVE AnswerInv'
  OBVIOUS
<1>1. ASSUME NEW c \in Consumer, TurnStep(c) PROVE AnswerInv'
  <2>1. CASE \/ Acquire(c) \/ Admit(c) \/ PublishNotice(c) \/ Decide(c) \/ RunTurn(c)
             \/ PublishReply(c)
    BY <2>1, AnswerTurn
  <2>2. CASE Persist(c)
    BY <2>2, AnswerPersist
  <2>3. CASE Finish(c)
    BY <2>3, AnswerFinish
  <2>4. CASE LeaseTimeout(c) \/ LeaseLost(c) \/ TurnRaises(c)
    BY <2>4, AnswerDrops DEF LeaseTimeout, LeaseLost, TurnRaises
  <2> QED
    BY <1>1, <2>1, <2>2, <2>3, <2>4 DEF TurnStep
<1>2. ASSUME NEW c \in Consumer, LoopStep(c) PROVE AnswerInv'
  BY <1>2, AnswerClaim, AnswerRead, AnswerTake, AnswerAck, AnswerMark DEF LoopStep
<1>3. ASSUME NEW c \in Consumer, Dispatch(c) PROVE AnswerInv'
  BY <1>3, AnswerDispatch
<1>4. ASSUME NEW c \in Consumer, Crash(c) PROVE AnswerInv'
  BY <1>4, AnswerDrops DEF Crash
<1>5. ASSUME NEW e \in Envelope, Deliver(e) \/ (ReplayDeadLetter(e) /\ UNCHANGED workerVars)
      PROVE  AnswerInv'
  BY <1>5, AnswerAdd
<1>6. ASSUME UNCHANGED <<log, last, pending, dead, completed, buried>>,
             UNCHANGED <<consumerVars, step, stored, concluded>>
      PROVE  AnswerInv'
  <2>1. UNCHANGED <<pc, phase, batch, cur, att>>
    BY <1>6 DEF consumerVars
  <2>2. \A e : Settled(e)' <=> Settled(e)
    BY <1>6 DEF Settled, Buried
  <2>3. CopiesAreReplays'
    BY <1>6, CopiesStay
  <2>4. AttemptsCount'
    BY <1>6, <2>1, AttemptsStay
  <2>5. StoredIsResumed'
    BY <1>6, <2>1, <2>2 DEF AnswerContext, AnswerInv, StoredIsResumed
  <2>6. OverIsSettled'
    BY <1>6, <2>1, <2>2 DEF AnswerContext, AnswerInv, OverIsSettled
  <2> QED
    BY <2>3, <2>4, <2>5, <2>6 DEF AnswerInv
<1>7. ASSUME \/ \E e \in Envelope : OnceExpires(e) /\ UNCHANGED workerVars
             \/ \E i \in EntryId : BecomesStale(i) /\ UNCHANGED workerVars
             \/ \E k \in Conversation : LeaseExpires(k)
             \/ UNCHANGED allVars
      PROVE  AnswerInv'
  BY <1>6, <1>7 DEF OnceExpires, BecomesStale, LeaseExpires, allVars, vars, workerVars,
     streamVars, historyVars
<1> QED
  BY <1>1, <1>2, <1>3, <1>4, <1>5, <1>7 DEF WorkerNext, WorkerStep, Environment

\* With one replica and no second copy but a replayed one, a completed message was
\* answered, refused or ignored by a turn that got that far, or is in the dead-letter
\* stream: the skipping of stored duplicates never swallows one, over any number of
\* messages, crashes, failed turns, stalls and replays.
THEOREM OneReplicaLosesNoAnswer == OneReplica /\ WorkerSpec => []NoAnswerLost
<1>1. WorkerInit => AnswerInv
  BY DEF WorkerInit, Init, AnswerInv, CopiesAreReplays, AttemptsCount, Held, StoredIsResumed,
     OverIsSettled, EntryId
<1>2. WorkerSpec => []StreamInv
  BY WorkerImplementsStream, StreamInvariant, PTL
<1>3. OneReplica => OneReplica'
  BY DEF OneReplica
<1>4. WorkerTypeOK /\ StreamInv /\ OneReplica /\ AnswerInv /\ [WorkerNext]_allVars => AnswerInv'
  BY AnswerStep DEF AnswerContext
<1>5. AnswerInv => NoAnswerLost
  BY DEF AnswerInv, OverIsSettled, Settled, Buried, NoAnswerLost
<1> QED
  BY <1>1, <1>2, <1>3, <1>4, <1>5, WorkerTypeCorrect, PTL DEF WorkerSpec

=============================================================================
