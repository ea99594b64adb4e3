------------------------ MODULE StreamConsumerProofs ------------------------
(***************************************************************************)
(* Type correctness, the at-least-once invariant and the finality of acks   *)
(* of StreamConsumer, for every number of replicas, payloads and entries.   *)
(***************************************************************************)
EXTENDS StreamConsumer, TLAPS

USE BoundAssumption, LimitAssumption, EnvelopeAssumption

\* What justifies an ack, a mark and a set key, at the place where a consumer
\* is about to rely on it.
Justified ==
  /\ \A c \in Consumer : pc[c] = "ack" => log[cur[c]] \in completed \/ cur[c] \in buried
  /\ \A c \in Consumer : pc[c] = "mark" => log[cur[c]] \in completed
  /\ OnceMeansCompleted

\* Only pending entries can be claimed.
StaleArePending == \A i \in stale : pending[i] > 0

\* The inductive invariant of the stream.
StreamInv == TypeOK /\ Justified /\ StaleArePending /\ NothingLost

\* XADD appends one payload, never revives a trimmed entry, and leaves the
\* payloads of older entries alone (streams.py, add).
LEMMA AddFacts ==
  ASSUME StreamType, NEW e \in Envelope, Add(e)
  PROVE  /\ log' \in Seq(Envelope)
         /\ Len(log') = Len(log) + 1
         /\ Len(log') <= MaxEntry
         /\ \A i \in 1..Len(log) : log'[i] = log[i]
         /\ \A i \in live' : i \in live \/ i = Len(log) + 1
<1>1. live' \subseteq live \cup {Len(log) + 1}
  BY DEF Add, Newest
<1>3. log' = Append(log, e) /\ log \in Seq(Envelope) /\ Len(log) < MaxEntry
  BY DEF Add, StreamType
<1> QED
  BY <1>1, <1>3

\* The types an added entry must not disturb.
LEMMA AddTypes ==
  ASSUME StreamType, NEW e \in Envelope, Add(e)
  PROVE  /\ log' \in Seq(Envelope) /\ Len(log') <= MaxEntry
         /\ live' \subseteq 1..Len(log')
         /\ 0..Len(log) \subseteq 0..Len(log')
         /\ 1..Len(log) \subseteq 1..Len(log')
         /\ SUBSET (1..Len(log)) \subseteq SUBSET (1..Len(log'))
<1>1. Len(log) \in Nat /\ live \subseteq 1..Len(log)
  BY DEF StreamType
<1>2. /\ log' \in Seq(Envelope) /\ Len(log') <= MaxEntry /\ Len(log') = Len(log) + 1
      /\ \A i \in live' : i \in live \/ i = Len(log) + 1
  BY AddFacts
<1>4. 0..Len(log) \subseteq 0..Len(log') /\ 1..Len(log) \subseteq 1..Len(log')
  BY <1>1, <1>2
<1>3. ASSUME NEW i \in live' PROVE i \in 1..Len(log')
  <2>1. Len(log) + 1 \in 1..Len(log')
    BY <1>1, <1>2
  <2>2. i \in live => i \in 1..Len(log')
    BY <1>1, <1>4
  <2> QED
    BY <1>2, <2>1, <2>2
<1> QED
  BY <1>2, <1>3, <1>4

\* The entry a consumer works on has been published, and its payload is one
\* (process_available only holds ids the backend returned).
LEMMA CurrentEntry ==
  ASSUME TypeOK, NEW c \in Consumer, pc[c] \notin {"claim", "next"}
  PROVE  /\ cur[c] \in 1..Len(log) /\ cur[c] \in EntryId /\ cur[c] \in batch[c]
         /\ log[cur[c]] \in Envelope
<1>1. cur[c] \in 1..Len(log) /\ cur[c] \in batch[c]
  BY DEF TypeOK, ConsumerType
<1>2. log \in Seq(Envelope) /\ Len(log) <= MaxEntry
  BY DEF TypeOK, StreamType
<1> QED
  BY <1>1, <1>2 DEF EntryId

\* The initial state is well typed (StreamConsumer.__init__, empty backend).
LEMMA InitType == Init => TypeOK
BY DEF Init, TypeOK, StreamType, ConsumerType, HistoryType, EntryId, PC, CountCap

\* Every step keeps the types (one case per backend call of process_available).
LEMMA NextType == TypeOK /\ [Next]_vars => TypeOK'
<1> SUFFICES ASSUME TypeOK, [Next]_vars PROVE TypeOK'
  OBVIOUS
<1>a. StreamType /\ ConsumerType /\ HistoryType
  BY DEF TypeOK
<1> USE DEF EntryId, PC, CountCap
<1>1. ASSUME NEW e \in Envelope, Publish(e) PROVE TypeOK'
  <2>0. Add(e) /\ UNCHANGED <<last, pending, stale, once, dead, pc, phase, batch, cur, att>>
    BY <1>1 DEF Publish, consumerVars
  <2>1. StreamType'
    BY <1>a, <2>0, AddTypes DEF StreamType
  <2>2. ConsumerType'
    BY <1>a, <2>0, AddTypes DEF ConsumerType
  <2>3. HistoryType'
    BY <1>a, <1>1 DEF HistoryType, Publish, historyVars
  <2> QED
    BY <2>1, <2>2, <2>3 DEF TypeOK
<1>2. ASSUME NEW e \in Envelope, OnceExpires(e) PROVE TypeOK'
  <2>1. StreamType'
    BY <1>a, <1>2 DEF StreamType, OnceExpires, streamVars
  <2>2. ConsumerType'
    BY <1>a, <1>2 DEF StreamType, ConsumerType, OnceExpires, consumerVars, streamVars, Forget, IsFirst
  <2>3. HistoryType'
    BY <1>a, <1>2 DEF HistoryType, OnceExpires, historyVars
  <2> QED
    BY <2>1, <2>2, <2>3 DEF TypeOK
<1>3. ASSUME NEW e \in Envelope, ReplayDeadLetter(e) PROVE TypeOK'
  <2>0. dead' \in [Envelope -> Nat]
    <3>1. dead \in [Envelope -> Nat] /\ dead[e] > 0 /\ dead' = [dead EXCEPT ![e] = @ - 1]
      BY <1>a, <1>3 DEF StreamType, ReplayDeadLetter
    <3> QED
      BY <3>1
  <2>a. Add(e) /\ UNCHANGED <<last, pending, stale, pc, phase, batch, cur, att>>
    BY <1>3 DEF ReplayDeadLetter, consumerVars
  <2>b. once' \subseteq once
    BY <1>3 DEF ReplayDeadLetter
  <2>1. StreamType'
    BY <1>a, <2>0, <2>a, <2>b, AddTypes DEF StreamType
  <2>2. ConsumerType'
    BY <1>a, <2>a, AddTypes DEF ConsumerType
  <2>3. HistoryType'
    BY <1>a, <1>3 DEF HistoryType, ReplayDeadLetter, historyVars
  <2> QED
    BY <2>1, <2>2, <2>3 DEF TypeOK
<1>4. ASSUME NEW i \in EntryId, BecomesStale(i) PROVE TypeOK'
  <2>1. StreamType'
    BY <1>a, <1>4 DEF StreamType, BecomesStale, streamVars
  <2>2. ConsumerType'
    BY <1>a, <1>4 DEF StreamType, ConsumerType, BecomesStale, consumerVars, streamVars, Forget, IsFirst
  <2>3. HistoryType'
    BY <1>a, <1>4 DEF HistoryType, BecomesStale, historyVars
  <2> QED
    BY <2>1, <2>2, <2>3 DEF TypeOK
<1>5. ASSUME NEW c \in Consumer, ClaimStale(c) PROVE TypeOK'
  <2>0. PICK B \in SUBSET stale :
           /\ batch' = [batch EXCEPT ![c] = B \cap live]
           /\ stale' = stale \ B
           /\ pending' = [i \in EntryId |->
                IF i \notin B THEN pending[i]
                ELSE IF i \notin live THEN 0
                ELSE IF pending[i] < CountCap THEN pending[i] + 1 ELSE CountCap]
    BY <1>5 DEF ClaimStale, Batches
  <2>b. pending' \in [EntryId -> 0..CountCap]
    BY <1>a, <2>0 DEF StreamType
  <2>1. StreamType'
    BY <1>a, <1>5, <2>0, <2>b DEF StreamType, ClaimStale
  <2>2. ConsumerType'
    BY <1>a, <1>5, <2>0 DEF StreamType, ConsumerType, ClaimStale, consumerVars, streamVars, Forget, IsFirst
  <2>3. HistoryType'
    BY <1>a, <1>5 DEF HistoryType, ClaimStale, historyVars
  <2> QED
    BY <2>1, <2>2, <2>3 DEF TypeOK
<1>6. ASSUME NEW c \in Consumer, TakeStale(c) PROVE TypeOK'
  <2>1. StreamType'
    BY <1>a, <1>6 DEF StreamType, TakeStale, streamVars
  <2>2. ConsumerType'
    <3>1. PICK i \in batch[c] :
             /\ cur' = [cur EXCEPT ![c] = i]
             /\ att' = [att EXCEPT ![c] = pending[i]]
             /\ pc' = [pc EXCEPT ![c] = IF pending[i] > MaxAttempts THEN "bury" ELSE "dedupe"]
             /\ UNCHANGED <<log, phase, batch>>
      BY <1>6 DEF TakeStale, streamVars
    <3>2. i \in EntryId /\ pending[i] \in 0..CountCap
      BY <1>a DEF StreamType, ConsumerType
    <3>3. /\ cur' \in [Consumer -> EntryId \cup {0}]
          /\ att' \in [Consumer -> 0..CountCap]
          /\ pc' \in [Consumer -> PC]
      BY <1>a, <3>1, <3>2 DEF ConsumerType
    <3> QED
      BY <1>a, <3>1, <3>3 DEF ConsumerType
  <2>3. HistoryType'
    BY <1>a, <1>6 DEF HistoryType, TakeStale, historyVars
  <2> QED
    BY <2>1, <2>2, <2>3 DEF TypeOK
<1>7. ASSUME NEW c \in Consumer, ReadNew(c) PROVE TypeOK'
  <2>0. PICK B \in SUBSET {i \in live : i > last} :
           /\ batch' = [batch EXCEPT ![c] = B]
           /\ pending' = [i \in EntryId |-> IF i \in B THEN 1 ELSE pending[i]]
           /\ stale' = stale \ B
           /\ \E m \in B \cup {last} : (\A j \in B : j <= m) /\ last' = m
           /\ pc' = [pc EXCEPT ![c] = IF B = {} THEN "claim" ELSE "next"]
           /\ phase' = [phase EXCEPT ![c] = IF B = {} THEN "stale" ELSE "fresh"]
    BY <1>7 DEF ReadNew, Batches
  <2>a. UNCHANGED <<log, live, once, dead>>
    BY <1>7 DEF ReadNew
  <2>b. last' \in 0..Len(log)
    BY <1>a, <2>0 DEF StreamType
  <2>c. pending' \in [EntryId -> 0..CountCap]
    <3>1. 1 \in 0..CountCap
      BY DEF CountCap
    <3> QED
      BY <1>a, <2>0, <3>1 DEF StreamType
  <2>1. StreamType'
    BY <1>a, <2>0, <2>a, <2>b, <2>c DEF StreamType
  <2>2. ConsumerType'
    BY <1>a, <1>7, <2>0 DEF StreamType, ConsumerType, ReadNew, consumerVars, streamVars, Forget, IsFirst
  <2>3. HistoryType'
    BY <1>a, <1>7 DEF HistoryType, ReadNew, historyVars
  <2> QED
    BY <2>1, <2>2, <2>3 DEF TypeOK
<1>8. ASSUME NEW c \in Consumer, TakeFresh(c) PROVE TypeOK'
  <2>1. StreamType'
    BY <1>a, <1>8 DEF StreamType, TakeFresh, streamVars
  <2>2. ConsumerType'
    <3>1. PICK i \in batch[c] :
             /\ cur' = [cur EXCEPT ![c] = i]
             /\ att' = [att EXCEPT ![c] = 1]
             /\ pc' = [pc EXCEPT ![c] = "dedupe"]
             /\ UNCHANGED <<log, phase, batch>>
      BY <1>8 DEF TakeFresh, streamVars
    <3>2. i \in EntryId /\ 1 \in 0..CountCap
      BY <1>a DEF StreamType, ConsumerType
    <3>3. /\ cur' \in [Consumer -> EntryId \cup {0}]
          /\ att' \in [Consumer -> 0..CountCap]
          /\ pc' \in [Consumer -> PC]
      BY <1>a, <3>1, <3>2 DEF ConsumerType
    <3> QED
      BY <1>a, <3>1, <3>3 DEF ConsumerType
  <2>3. HistoryType'
    BY <1>a, <1>8 DEF HistoryType, TakeFresh, historyVars
  <2> QED
    BY <2>1, <2>2, <2>3 DEF TypeOK
<1>9. ASSUME NEW c \in Consumer, EndIteration(c) PROVE TypeOK'
  <2>1. StreamType'
    BY <1>a, <1>9 DEF StreamType, EndIteration, streamVars
  <2>2. ConsumerType'
    BY <1>a, <1>9 DEF StreamType, ConsumerType, EndIteration, consumerVars, streamVars, Forget, IsFirst
  <2>3. HistoryType'
    BY <1>a, <1>9 DEF HistoryType, EndIteration, historyVars
  <2> QED
    BY <2>1, <2>2, <2>3 DEF TypeOK
<1>10. ASSUME NEW c \in Consumer, CheckOnce(c) PROVE TypeOK'
  <2>1. StreamType'
    BY <1>a, <1>10, CurrentEntry DEF StreamType, CheckOnce, streamVars
  <2>2. ConsumerType'
    BY <1>a, <1>10, CurrentEntry DEF StreamType, ConsumerType, CheckOnce, consumerVars, streamVars, Forget, IsFirst
  <2>3. HistoryType'
    BY <1>a, <1>10 DEF HistoryType, CheckOnce, historyVars
  <2> QED
    BY <2>1, <2>2, <2>3 DEF TypeOK
<1>11. ASSUME NEW c \in Consumer, HandlerSucceeds(c) PROVE TypeOK'
  <2>1. StreamType'
    BY <1>a, <1>11, CurrentEntry DEF StreamType, HandlerSucceeds, streamVars
  <2>2. ConsumerType'
    BY <1>a, <1>11, CurrentEntry DEF StreamType, ConsumerType, HandlerSucceeds, consumerVars, streamVars, Forget, IsFirst
  <2>3. HistoryType'
    BY <1>a, <1>11, CurrentEntry DEF HistoryType, HandlerSucceeds, historyVars
  <2> QED
    BY <2>1, <2>2, <2>3 DEF TypeOK
<1>12. ASSUME NEW c \in Consumer, HandlerFails(c) PROVE TypeOK'
  <2>1. StreamType'
    BY <1>a, <1>12 DEF StreamType, HandlerFails, streamVars
  <2>2. ConsumerType'
    BY <1>a, <1>12 DEF StreamType, ConsumerType, HandlerFails, consumerVars, streamVars, Forget, IsFirst
  <2>3. HistoryType'
    BY <1>a, <1>12 DEF HistoryType, HandlerFails, historyVars
  <2> QED
    BY <2>1, <2>2, <2>3 DEF TypeOK
<1>13. ASSUME NEW c \in Consumer, MarkOnce(c) PROVE TypeOK'
  <2>1. StreamType'
    BY <1>a, <1>13, CurrentEntry DEF StreamType, MarkOnce, streamVars
  <2>2. ConsumerType'
    BY <1>a, <1>13, CurrentEntry DEF StreamType, ConsumerType, MarkOnce, consumerVars, streamVars, Forget, IsFirst
  <2>3. HistoryType'
    BY <1>a, <1>13, CurrentEntry DEF HistoryType, MarkOnce, historyVars
  <2> QED
    BY <2>1, <2>2, <2>3 DEF TypeOK
<1>14. ASSUME NEW c \in Consumer, Bury(c) PROVE TypeOK'
  <2>0. log[cur[c]] \in Envelope
    BY <1>14, CurrentEntry DEF Bury
  <2>a. dead' \in [Envelope -> Nat]
    <3>1. dead \in [Envelope -> Nat] /\ dead' = [dead EXCEPT ![log[cur[c]]] = @ + 1]
      BY <1>a, <1>14 DEF StreamType, Bury
    <3> QED
      BY <2>0, <3>1
  <2>1. StreamType'
    BY <1>a, <1>14, <2>a DEF StreamType, Bury
  <2>2. ConsumerType'
    BY <1>a, <1>14, CurrentEntry DEF StreamType, ConsumerType, Bury, consumerVars, streamVars, Forget, IsFirst
  <2>3. HistoryType'
    BY <1>a, <1>14, CurrentEntry DEF HistoryType, Bury, historyVars
  <2> QED
    BY <2>1, <2>2, <2>3 DEF TypeOK
<1>15. ASSUME NEW c \in Consumer, Ack(c) PROVE TypeOK'
  <2>a. pending' \in [EntryId -> 0..CountCap]
    <3>1. /\ pending \in [EntryId -> 0..CountCap]
          /\ pending' = [pending EXCEPT ![cur[c]] = 0]
      BY <1>a, <1>15 DEF StreamType, Ack
    <3>2. 0 \in 0..CountCap
      OBVIOUS
    <3> HIDE DEF EntryId, CountCap
    <3> QED
      BY <3>1, <3>2
  <2>1. StreamType'
    BY <1>a, <1>15, <2>a DEF StreamType, Ack
  <2>2. ConsumerType'
    <3>1. /\ batch' = [batch EXCEPT ![c] = @ \ {cur[c]}]
          /\ pc' = [pc EXCEPT ![c] = "next"]
          /\ cur' = [cur EXCEPT ![c] = 0]
          /\ att' = [att EXCEPT ![c] = 0]
          /\ UNCHANGED <<log, phase>>
      BY <1>15 DEF Ack, Forget
    <3>2. 0 \in 0..CountCap
      OBVIOUS
    <3>3. /\ cur' \in [Consumer -> EntryId \cup {0}]
          /\ att' \in [Consumer -> 0..CountCap]
          /\ pc' \in [Consumer -> PC]
      BY <1>a, <3>1, <3>2 DEF ConsumerType
    <3>4. batch' \in [Consumer -> SUBSET (1..Len(log))]
      BY <1>a, <3>1 DEF ConsumerType
    <3> QED
      BY <1>a, <3>1, <3>3, <3>4 DEF ConsumerType
  <2>3. HistoryType'
    BY <1>a, <1>15 DEF HistoryType, Ack, historyVars
  <2> QED
    BY <2>1, <2>2, <2>3 DEF TypeOK
<1>16. ASSUME NEW c \in Consumer, IterationFails(c) PROVE TypeOK'
  <2>1. StreamType'
    BY <1>a, <1>16 DEF StreamType, IterationFails, streamVars
  <2>2. ConsumerType'
    BY <1>a, <1>16 DEF StreamType, ConsumerType, IterationFails, consumerVars, streamVars, Forget, IsFirst
  <2>3. HistoryType'
    BY <1>a, <1>16 DEF HistoryType, IterationFails, historyVars
  <2> QED
    BY <2>1, <2>2, <2>3 DEF TypeOK
<1>17. CASE UNCHANGED vars
  BY <1>a, <1>17 DEF TypeOK, StreamType, ConsumerType, HistoryType, vars, streamVars,
     consumerVars, historyVars
<1> QED
  BY <1>1, <1>2, <1>3, <1>4, <1>5, <1>6, <1>7, <1>8, <1>9, <1>10, <1>11, <1>12,
     <1>13, <1>14, <1>15, <1>16, <1>17 DEF Next, ConsumerStep

\* StreamConsumer keeps its types for every value of the constants.
THEOREM TypeCorrect == Spec => []TypeOK
BY InitType, NextType, PTL DEF Spec

-----------------------------------------------------------------------------
(* The inductive invariant.  NothingLost alone is not inductive: an ack is    *)
(* safe only because of what the consumer knew when it moved to "ack"         *)
(* (Justified), and a claim may zero only entries that were pending           *)
(* (StaleArePending).                                                         *)

\* Nothing has happened, so nothing is owed.
LEMMA InitInv == Init => StreamInv
BY InitType DEF Init, StreamInv, Justified, OnceMeansCompleted, StaleArePending, NothingLost

\* A consumer reaches "ack" and "mark" only with its justification in place,
\* and nobody takes it away (_handle: mark after the handler, ack last).
LEMMA JustifiedStep == StreamInv /\ [Next]_vars => Justified'
<1> SUFFICES ASSUME StreamInv, [Next]_vars PROVE Justified'
  OBVIOUS
<1>a. TypeOK /\ Justified
  BY DEF StreamInv
<1>b. StreamType /\ pc \in [Consumer -> PC]
  BY <1>a DEF TypeOK, ConsumerType
<1>c. \A d \in Consumer : pc[d] \notin {"claim", "next"} => cur[d] \in 1..Len(log)
  BY <1>a, CurrentEntry
<1>1. ASSUME NEW e \in Envelope, Publish(e) \/ ReplayDeadLetter(e) PROVE Justified'
  <2>1. Add(e) /\ once' \subseteq once /\ UNCHANGED <<pc, cur, completed, buried>>
    BY <1>1 DEF Publish, ReplayDeadLetter, consumerVars, historyVars
  <2>2. \A i \in 1..Len(log) : log'[i] = log[i]
    BY <1>b, <2>1, AddFacts
  <2> QED
    BY <1>a, <1>c, <2>1, <2>2 DEF Justified, OnceMeansCompleted
<1>2. ASSUME NEW c \in Consumer, CheckOnce(c) PROVE Justified'
  BY <1>a, <1>b, <1>2 DEF CheckOnce, Justified, OnceMeansCompleted, streamVars
<1>3. ASSUME NEW c \in Consumer, HandlerSucceeds(c) PROVE Justified'
  BY <1>a, <1>b, <1>3 DEF HandlerSucceeds, Justified, OnceMeansCompleted, streamVars
<1>4. ASSUME NEW c \in Consumer, MarkOnce(c) PROVE Justified'
  BY <1>a, <1>b, <1>4 DEF MarkOnce, Justified, OnceMeansCompleted, historyVars
<1>5. ASSUME NEW c \in Consumer, Bury(c) PROVE Justified'
  BY <1>a, <1>b, <1>5 DEF Bury, Justified, OnceMeansCompleted
<1>6. ASSUME /\ \A d \in Consumer : pc'[d] \in {"ack", "mark"} =>
                                     pc'[d] = pc[d] /\ cur'[d] = cur[d]
             /\ once' \subseteq once
             /\ UNCHANGED <<log, completed, buried>>
      PROVE  Justified'
  BY <1>a, <1>6 DEF Justified, OnceMeansCompleted
<1>7. CASE UNCHANGED vars
  BY <1>6, <1>7 DEF vars, streamVars, consumerVars, historyVars
<1>8. ASSUME NEW e \in Envelope, OnceExpires(e) PROVE Justified'
  BY <1>6, <1>8 DEF OnceExpires, consumerVars, historyVars
<1>9. ASSUME NEW i \in EntryId, BecomesStale(i) PROVE Justified'
  BY <1>6, <1>9 DEF BecomesStale, consumerVars, historyVars
<1>10. ASSUME NEW c \in Consumer, ClaimStale(c) PROVE Justified'
  BY <1>b, <1>6, <1>10 DEF ClaimStale, historyVars
<1>11. ASSUME NEW c \in Consumer, TakeStale(c) \/ TakeFresh(c) PROVE Justified'
  <2>1. \A d \in Consumer : pc'[d] \in {"ack", "mark"} => pc'[d] = pc[d] /\ cur'[d] = cur[d]
    BY <1>a, <1>b, <1>11 DEF TakeStale, TakeFresh, TypeOK, ConsumerType
  <2> QED
    BY <1>6, <1>11, <2>1 DEF TakeStale, TakeFresh, historyVars, streamVars
<1>12. ASSUME NEW c \in Consumer, ReadNew(c) PROVE Justified'
  BY <1>b, <1>6, <1>12 DEF ReadNew, historyVars
<1>13. ASSUME NEW c \in Consumer, EndIteration(c) PROVE Justified'
  BY <1>b, <1>6, <1>13 DEF EndIteration, historyVars, streamVars
<1>14. ASSUME NEW c \in Consumer, HandlerFails(c) \/ Ack(c) \/ IterationFails(c)
       PROVE  Justified'
  <2>1. \A d \in Consumer : pc'[d] \in {"ack", "mark"} => pc'[d] = pc[d] /\ cur'[d] = cur[d]
    BY <1>a, <1>b, <1>14 DEF HandlerFails, Ack, IterationFails, Forget, TypeOK, ConsumerType
  <2> QED
    BY <1>6, <1>14, <2>1 DEF HandlerFails, Ack, IterationFails, historyVars, streamVars
<1> QED
  BY <1>1, <1>2, <1>3, <1>4, <1>5, <1>7, <1>8, <1>9, <1>10, <1>11, <1>12, <1>13,
     <1>14 DEF Next, ConsumerStep

\* Only these steps touch the stream and the pending list; every other one
\* leaves them alone and at most adds to what was completed or buried.
LEMMA StepKinds ==
  ASSUME [Next]_vars
  PROVE  \/ \E e \in Envelope : Publish(e) \/ ReplayDeadLetter(e)
         \/ \E i \in EntryId : BecomesStale(i)
         \/ \E c \in Consumer : ClaimStale(c) \/ ReadNew(c) \/ Ack(c)
         \/ /\ UNCHANGED <<log, live, last, pending, stale>>
            /\ completed \subseteq completed' /\ buried \subseteq buried'
<1> DEFINE Quiet == /\ UNCHANGED <<log, live, last, pending, stale>>
                    /\ completed \subseteq completed' /\ buried \subseteq buried'
<1>1. CASE UNCHANGED vars
  BY <1>1 DEF vars, streamVars, historyVars
<1>2. ASSUME NEW e \in Envelope, OnceExpires(e) PROVE Quiet
  BY <1>2 DEF OnceExpires, historyVars
<1>3. ASSUME NEW c \in Consumer, TakeStale(c) \/ TakeFresh(c) \/ EndIteration(c) PROVE Quiet
  BY <1>3 DEF TakeStale, TakeFresh, EndIteration, streamVars, historyVars
<1>4. ASSUME NEW c \in Consumer, CheckOnce(c) \/ HandlerSucceeds(c) \/ HandlerFails(c)
      PROVE  Quiet
  BY <1>4 DEF CheckOnce, HandlerSucceeds, HandlerFails, streamVars, historyVars
<1>5. ASSUME NEW c \in Consumer, MarkOnce(c) \/ Bury(c) \/ IterationFails(c) PROVE Quiet
  BY <1>5 DEF MarkOnce, Bury, IterationFails, streamVars, historyVars
<1> QED
  BY <1>1, <1>2, <1>3, <1>4, <1>5 DEF Next, ConsumerStep

\* What claim_stale does to an entry: it may drop it only if it is trimmed.
LEMMA ClaimFacts ==
  ASSUME StreamInv, NEW c \in Consumer, ClaimStale(c)
  PROVE  /\ \A i \in EntryId : pending'[i] = 0 => pending[i] = 0 \/ i \notin live
         /\ \A i \in EntryId : pending[i] = 0 => pending'[i] = 0
         /\ \A i \in stale' : i \in stale /\ pending'[i] = pending[i]
<1>1. StreamType /\ StaleArePending
  BY DEF StreamInv, TypeOK
<1>2. PICK B \in SUBSET stale :
           /\ stale' = stale \ B
           /\ pending' = [i \in EntryId |->
                IF i \notin B THEN pending[i]
                ELSE IF i \notin live THEN 0
                ELSE IF pending[i] < CountCap THEN pending[i] + 1 ELSE CountCap]
  BY DEF ClaimStale, Batches
<1>3. stale \subseteq EntryId /\ \A i \in EntryId : pending[i] \in 0..CountCap
  BY <1>1 DEF StreamType
<1> QED
  BY <1>1, <1>2, <1>3 DEF StaleArePending, CountCap

\* What read_new does: it delivers, in id order and without a gap, entries
\* that were never delivered.
LEMMA ReadFacts ==
  ASSUME StreamInv, NEW c \in Consumer, ReadNew(c)
  PROVE  /\ \A i \in EntryId : i <= last => pending'[i] = pending[i]
         /\ \A i \in EntryId : i <= last' /\ i > last /\ i \in live => pending'[i] = 1
         /\ \A i \in stale' : i \in stale /\ pending'[i] = pending[i]
<1>1. StreamType
  BY DEF StreamInv, TypeOK
<1> DEFINE S == {i \in live : i > last}
<1>2. PICK B \in SUBSET S :
           /\ \A i \in S, m \in B : i <= m => i \in B
           /\ pending' = [i \in EntryId |-> IF i \in B THEN 1 ELSE pending[i]]
           /\ stale' = stale \ B
           /\ \E m \in B \cup {last} : (\A j \in B : j <= m) /\ last' = m
  BY DEF ReadNew, Batches
<1>3. /\ last \in Nat /\ stale \subseteq EntryId
      /\ \A i \in live : i \in Nat /\ i <= Len(log)
  BY <1>1 DEF StreamType
<1>4. ASSUME NEW i \in EntryId, i <= last' /\ i > last /\ i \in live PROVE pending'[i] = 1
  <2>1. last' \in B
    BY <1>2, <1>3, <1>4 DEF EntryId
  <2> QED
    BY <1>2, <1>4, <2>1
<1> QED
  BY <1>2, <1>3, <1>4 DEF EntryId

\* Only pending entries are stale (BecomesStale looks at the pending list, and
\* claims, first deliveries and acks keep the two in step).
LEMMA StaleStep == StreamInv /\ [Next]_vars => StaleArePending'
<1> SUFFICES ASSUME StreamInv, [Next]_vars PROVE StaleArePending'
  OBVIOUS
<1>a. StaleArePending /\ StreamType
  BY DEF StreamInv, TypeOK
<1>1. ASSUME NEW e \in Envelope, Publish(e) \/ ReplayDeadLetter(e) PROVE StaleArePending'
  BY <1>a, <1>1 DEF Publish, ReplayDeadLetter, StaleArePending
<1>2. ASSUME NEW i \in EntryId, BecomesStale(i) PROVE StaleArePending'
  BY <1>a, <1>2 DEF BecomesStale, StaleArePending
<1>3. ASSUME NEW c \in Consumer, ClaimStale(c) PROVE StaleArePending'
  BY <1>a, <1>3, ClaimFacts DEF StaleArePending
<1>4. ASSUME NEW c \in Consumer, ReadNew(c) PROVE StaleArePending'
  BY <1>a, <1>4, ReadFacts DEF StaleArePending
<1>5. ASSUME NEW c \in Consumer, Ack(c) PROVE StaleArePending'
  BY <1>a, <1>5 DEF Ack, StaleArePending, StreamType
<1>6. CASE UNCHANGED <<pending, stale>>
  BY <1>a, <1>6 DEF StaleArePending
<1> QED
  BY <1>1, <1>2, <1>3, <1>4, <1>5, <1>6, StepKinds

\* No step loses an entry.
LEMMA LostStep == StreamInv /\ [Next]_vars => NothingLost'
<1> SUFFICES ASSUME StreamInv, [Next]_vars PROVE NothingLost'
  OBVIOUS
<1>a. NothingLost /\ TypeOK /\ StreamType
  BY DEF StreamInv, TypeOK
<1>b. Len(log) \in Nat /\ last \in Nat /\ last <= Len(log) /\ 1..Len(log) \subseteq EntryId
  BY <1>a DEF StreamType, EntryId
<1>1. ASSUME NEW e \in Envelope, Publish(e) \/ ReplayDeadLetter(e) PROVE NothingLost'
  <2>1. Add(e) /\ UNCHANGED <<last, pending, completed, buried>>
    BY <1>1 DEF Publish, ReplayDeadLetter, historyVars
  <2>2. /\ Len(log') = Len(log) + 1
        /\ \A i \in 1..Len(log) : log'[i] = log[i]
        /\ \A i \in live' : i \in live \/ i = Len(log) + 1
    BY <1>a, <2>1, AddFacts
  <2>3. ASSUME NEW i \in 1..Len(log'), i <= last PROVE i \in 1..Len(log) /\ i # Len(log) + 1
    BY <1>b, <2>2, <2>3
  <2> QED
    BY <1>a, <2>1, <2>2, <2>3 DEF NothingLost
<1>2. ASSUME NEW c \in Consumer, ClaimStale(c) PROVE NothingLost'
  <2>1. UNCHANGED <<log, live, last, completed, buried>>
    BY <1>2 DEF ClaimStale, historyVars
  <2> QED
    BY <1>a, <1>b, <1>2, <2>1, ClaimFacts DEF NothingLost
<1>3. ASSUME NEW c \in Consumer, ReadNew(c) PROVE NothingLost'
  <2>1. UNCHANGED <<log, live, completed, buried>>
    BY <1>3 DEF ReadNew, historyVars
  <2>2. ASSUME NEW i \in 1..Len(log), i <= last', pending'[i] = 0
        PROVE  log[i] \in completed \/ i \in buried \/ i \notin live
    <3>1. CASE i <= last
      BY <1>a, <1>b, <1>3, <2>2, <3>1, ReadFacts DEF NothingLost
    <3>2. CASE i > last
      BY <1>b, <1>3, <2>2, <3>2, ReadFacts
    <3> QED
      BY <1>b, <3>1, <3>2
  <2> QED
    BY <2>1, <2>2 DEF NothingLost
<1>4. ASSUME NEW c \in Consumer, Ack(c) PROVE NothingLost'
  <2>1. UNCHANGED <<log, live, last, completed, buried>>
    BY <1>4 DEF Ack, historyVars
  <2>2. log[cur[c]] \in completed \/ cur[c] \in buried
    BY <1>4 DEF Ack, StreamInv, Justified
  <2>3. \A i \in EntryId : i # cur[c] => pending'[i] = pending[i]
    BY <1>a, <1>4 DEF Ack, StreamType
  <2> QED
    BY <1>a, <1>b, <2>1, <2>2, <2>3 DEF NothingLost
<1>5. CASE /\ UNCHANGED <<log, live, last, pending>>
           /\ completed \subseteq completed' /\ buried \subseteq buried'
  BY <1>a, <1>5 DEF NothingLost
<1>6. ASSUME NEW i \in EntryId, BecomesStale(i) PROVE NothingLost'
  BY <1>5, <1>6 DEF BecomesStale, historyVars
<1> QED
  BY <1>1, <1>2, <1>3, <1>4, <1>5, <1>6, StepKinds

\* The inductive invariant holds in every reachable state.
THEOREM StreamInvariant == Spec => []StreamInv
<1>1. StreamInv /\ [Next]_vars => StreamInv'
  BY NextType, JustifiedStep, StaleStep, LostStep DEF StreamInv
<1> QED
  BY <1>1, InitInv, PTL DEF Spec

\* Nothing delivered and no longer pending is lost: it was completed, copied
\* to the dead-letter stream or trimmed, for any replicas and any crashes.
THEOREM NothingIsLost == Spec => []NothingLost
<1>1. StreamInv => NothingLost
  BY DEF StreamInv
<1> QED
  BY <1>1, StreamInvariant, PTL

\* A set dedupe key means that some handler run finished for the payload.
THEOREM OnceIsSound == Spec => []OnceMeansCompleted
<1>1. StreamInv => OnceMeansCompleted
  BY DEF StreamInv, Justified
<1> QED
  BY <1>1, StreamInvariant, PTL

\* A settled entry is never delivered again.
THEOREM SettledIsFinal == Spec => SettledStaysSettled
<1>1. ASSUME StreamInv, [Next]_vars
      PROVE  \A i \in EntryId : i <= last /\ pending[i] = 0 => pending'[i] = 0
  <2>1. ASSUME NEW e \in Envelope, Publish(e) \/ ReplayDeadLetter(e) PROVE UNCHANGED pending
    BY <2>1 DEF Publish, ReplayDeadLetter
  <2>2. ASSUME NEW i \in EntryId, BecomesStale(i) PROVE UNCHANGED pending
    BY <2>2 DEF BecomesStale
  <2>3. ASSUME NEW c \in Consumer, Ack(c), NEW i \in EntryId, pending[i] = 0
        PROVE  pending'[i] = 0
    BY <1>1, <2>3 DEF Ack, StreamInv, TypeOK, StreamType
  <2> QED
    BY <1>1, <2>1, <2>2, <2>3, ClaimFacts, ReadFacts, StepKinds
<1> QED
  BY <1>1, StreamInvariant, PTL DEF Spec, SettledStaysSettled
=============================================================================
