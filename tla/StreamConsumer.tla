--------------------------- MODULE StreamConsumer ---------------------------
(***************************************************************************)
(* One Redis stream, its consumer group and the processes that read it:     *)
(* StreamConsumer of src/mybot/infrastructure/streams.py over the backend   *)
(* contract that MemoryStreamBackend spells out in the same file.  The      *)
(* ingest, outbound and knowledge streams are three instances of it.        *)
(*                                                                          *)
(* Every `await` on the backend is one step.  A batch is the set of entry   *)
(* ids the code holds in a list; both lists are in id order, so "the next   *)
(* one" is the least id.  The handler is opaque here: it starts, and later  *)
(* succeeds or fails; AgentWorker opens it up.                              *)
(***************************************************************************)
EXTENDS Integers, FiniteSets, Sequences

CONSTANTS
  Consumer,     \* consumer processes of the group (replicas)
  Envelope,     \* payloads, named by their dedupe key (the envelope id)
  Malformed,    \* the payloads whose dedupe_key() raises
  Deduped,      \* TRUE where the caller passes a dedupe_key (the ingest stream)
  MaxAttempts,  \* max_attempts
  ReadCount,    \* read_count
  MaxLen,       \* the publishers' maxlen
  MaxEntry,     \* bound: entries ever added to the stream
  MaxFaults     \* bound: crashes and failed iterations

ASSUME ConsumerAssumption == Consumer # {} /\ IsFiniteSet(Consumer)
ASSUME EnvelopeAssumption == Malformed \subseteq Envelope /\ Deduped \in BOOLEAN
ASSUME LimitAssumption == /\ MaxAttempts \in Nat \ {0} /\ ReadCount \in Nat \ {0}
                          /\ MaxLen \in Nat \ {0}
ASSUME BoundAssumption == MaxEntry \in Nat /\ MaxFaults \in Nat

VARIABLES
  log,       \* every payload ever added, by entry id
  live,      \* the ids XADD MAXLEN has not trimmed
  last,      \* the group's last-delivered id (_GroupState.next_index)
  pending,   \* delivery count of each pending entry, 0 when not pending
  stale,     \* the pending ids idle for at least claim_min_idle_ms
  once,      \* the dedupe keys that are set and have not expired
  dead,      \* the dead-letter stream: how many copies of each payload (one its
             \* own MAXLEN trims is like one that is never replayed)
  pc, phase, batch, cur, att,  \* each consumer's position in process_available
  faults,    \* crashes and failed iterations so far
  completed, \* history: payloads some handler run finished for
  buried     \* history: entries copied to the dead-letter stream

streamVars == <<log, live, last, pending, stale, once, dead>>
consumerVars == <<pc, phase, batch, cur, att>>
historyVars == <<completed, buried>>
vars == <<streamVars, consumerVars, faults, historyVars>>

EntryId == 1..MaxEntry
PC == {"claim", "next", "dedupe", "handler", "mark", "bury", "ack"}

\* Delivery counts are only ever compared with MaxAttempts: they saturate.
CountCap == MaxAttempts + 1

StreamType ==
  /\ log \in Seq(Envelope) /\ Len(log) <= MaxEntry
  /\ live \subseteq 1..Len(log)
  /\ last \in 0..Len(log)
  /\ pending \in [EntryId -> 0..CountCap]
  /\ stale \subseteq EntryId
  /\ once \subseteq Envelope
  /\ dead \in [Envelope -> Nat]

ConsumerType ==
  /\ pc \in [Consumer -> PC]
  /\ phase \in [Consumer -> {"stale", "fresh"}]
  /\ batch \in [Consumer -> SUBSET (1..Len(log))]
  /\ cur \in [Consumer -> EntryId \cup {0}]
  /\ att \in [Consumer -> 0..CountCap]
  /\ \A c \in Consumer : pc[c] \notin {"claim", "next"} => cur[c] \in batch[c]

HistoryType ==
  /\ faults \in 0..MaxFaults
  /\ completed \subseteq Envelope
  /\ buried \subseteq EntryId

TypeOK == StreamType /\ ConsumerType /\ HistoryType

Init ==
  /\ log = <<>> /\ live = {} /\ last = 0
  /\ pending = [i \in EntryId |-> 0] /\ stale = {}
  /\ once = {} /\ dead = [e \in Envelope |-> 0]
  /\ pc = [c \in Consumer |-> "claim"]
  /\ phase = [c \in Consumer |-> "stale"]
  /\ batch = [c \in Consumer |-> {}]
  /\ cur = [c \in Consumer |-> 0]
  /\ att = [c \in Consumer |-> 0]
  /\ faults = 0
  /\ completed = {} /\ buried = {}

-----------------------------------------------------------------------------
(* The backend.                                                            *)

IsFirst(i, S) == i \in S /\ \A j \in S : i <= j

\* The prefixes of S, in id order, that a read with COUNT ReadCount returns.
Batches(S) ==
  {B \in SUBSET S :
     /\ \A i \in S, m \in B : i <= m => i \in B
     /\ Cardinality(B) <= ReadCount
     /\ Cardinality(B) = ReadCount \/ B = S}

\* XADD MAXLEN ~: the stream is cut to its newest MaxLen entries or left
\* longer (approximate trimming), as Redis likes.
Newest(S) == {i \in S : Cardinality({j \in S : j > i}) < MaxLen}

Add(e) ==
  LET added == live \cup {Len(log) + 1}
  IN  /\ Len(log) < MaxEntry
      /\ log' = Append(log, e)
      /\ live' \in {added, Newest(added)}

\* StreamPublisher.publish, by a transport or a worker of another stream.
Publish(e) ==
  /\ Add(e)
  /\ UNCHANGED <<last, pending, stale, once, dead, consumerVars, faults, historyVars>>

\* claim_min_idle_ms pass without a delivery or an ack of entry i.
BecomesStale(i) ==
  /\ pending[i] > 0 /\ i \notin stale
  /\ stale' = stale \cup {i}
  /\ UNCHANGED <<log, live, last, pending, once, dead, consumerVars, faults, historyVars>>

\* dedupe_ttl_seconds pass.
OnceExpires(e) ==
  /\ e \in once
  /\ once' = once \ {e}
  /\ UNCHANGED <<log, live, last, pending, stale, dead, consumerVars, faults, historyVars>>

\* The operator's replay: one Lua script clears the dedupe key (ingest only,
\* and only when the payload parses), re-adds the payload and removes one
\* dead-letter entry.
ReplayDeadLetter(e) ==
  /\ dead[e] > 0
  /\ Add(e)
  /\ once' = IF Deduped /\ e \notin Malformed THEN once \ {e} ELSE once
  /\ dead' = [dead EXCEPT ![e] = @ - 1]
  /\ UNCHANGED <<last, pending, stale, consumerVars, faults, historyVars>>

-----------------------------------------------------------------------------
(* process_available, one backend call at a time.                          *)

\* The loop variables of consumer c go out of scope when its entry is done.
Forget(c) ==
  /\ cur' = [cur EXCEPT ![c] = 0]
  /\ att' = [att EXCEPT ![c] = 0]

\* claim_stale: raise the delivery count of the first stale entries; entries
\* that were trimmed meanwhile leave the pending list and are not returned.
ClaimStale(c) ==
  /\ pc[c] = "claim"
  /\ \E B \in Batches(stale) :
       /\ pending' = [i \in EntryId |->
            IF i \notin B THEN pending[i]
            ELSE IF i \notin live THEN 0
            ELSE IF pending[i] < CountCap THEN pending[i] + 1 ELSE CountCap]
       /\ stale' = stale \ B
       /\ batch' = [batch EXCEPT ![c] = B \cap live]
  /\ pc' = [pc EXCEPT ![c] = "next"]
  /\ UNCHANGED <<log, live, last, once, dead, phase, cur, att, faults, historyVars>>

\* delivery_count of the next claimed entry: 0 once somebody has acked it.
TakeStale(c) ==
  /\ pc[c] = "next" /\ phase[c] = "stale"
  /\ \E i \in batch[c] :
       /\ IsFirst(i, batch[c])
       /\ cur' = [cur EXCEPT ![c] = i]
       /\ att' = [att EXCEPT ![c] = pending[i]]
       /\ pc' = [pc EXCEPT ![c] = IF pending[i] > MaxAttempts THEN "bury" ELSE "dedupe"]
  /\ UNCHANGED <<streamVars, phase, batch, faults, historyVars>>

\* read_new, after the claimed entries: deliver the next entries for the
\* first time.  With none left the iteration is over.
ReadNew(c) ==
  /\ pc[c] = "next" /\ phase[c] = "stale" /\ batch[c] = {}
  /\ \E B \in Batches({i \in live : i > last}) :
       /\ batch' = [batch EXCEPT ![c] = B]
       /\ pending' = [i \in EntryId |-> IF i \in B THEN 1 ELSE pending[i]]
       /\ stale' = stale \ B
       /\ \E m \in B \cup {last} : (\A j \in B : j <= m) /\ last' = m
       /\ pc' = [pc EXCEPT ![c] = IF B = {} THEN "claim" ELSE "next"]
       /\ phase' = [phase EXCEPT ![c] = IF B = {} THEN "stale" ELSE "fresh"]
  /\ UNCHANGED <<log, live, once, dead, cur, att, faults, historyVars>>

TakeFresh(c) ==
  /\ pc[c] = "next" /\ phase[c] = "fresh"
  /\ \E i \in batch[c] :
       /\ IsFirst(i, batch[c])
       /\ cur' = [cur EXCEPT ![c] = i]
       /\ att' = [att EXCEPT ![c] = 1]
       /\ pc' = [pc EXCEPT ![c] = "dedupe"]
  /\ UNCHANGED <<streamVars, phase, batch, faults, historyVars>>

\* The fresh list is exhausted: process_available returns, run() loops.
EndIteration(c) ==
  /\ pc[c] = "next" /\ phase[c] = "fresh" /\ batch[c] = {}
  /\ pc' = [pc EXCEPT ![c] = "claim"]
  /\ phase' = [phase EXCEPT ![c] = "stale"]
  /\ UNCHANGED <<streamVars, batch, cur, att, faults, historyVars>>

\* Mutant: the key is set before the handler runs.
CheckOnceMarks(c) ==
  LET e == log[cur[c]] IN
  /\ pc[c] = "dedupe"
  /\ \/ /\ Deduped /\ e \in Malformed
        /\ pc' = [pc EXCEPT ![c] = "bury"]
        /\ UNCHANGED once
     \/ /\ Deduped /\ e \notin Malformed /\ e \in once
        /\ pc' = [pc EXCEPT ![c] = "ack"]
        /\ UNCHANGED once
     \/ /\ Deduped => e \notin Malformed \cup once
        /\ pc' = [pc EXCEPT ![c] = "handler"]
        /\ once' = once \cup {e}
  /\ UNCHANGED <<log, live, last, pending, stale, dead, phase, batch, cur, att, faults,
                 completed, buried>>

\* _handle up to the handler call: a payload without a key goes to the
\* dead-letter stream, a completed key is acked, anything else is handled.
CheckOnce(c) ==
  LET e == log[cur[c]] IN
  /\ pc[c] = "dedupe"
  /\ \/ /\ Deduped /\ e \in Malformed
        /\ pc' = [pc EXCEPT ![c] = "bury"]
     \/ /\ Deduped /\ e \notin Malformed /\ e \in once
        /\ pc' = [pc EXCEPT ![c] = "ack"]
     \/ /\ Deduped => e \notin Malformed \cup once
        /\ pc' = [pc EXCEPT ![c] = "handler"]
  /\ UNCHANGED <<streamVars, phase, batch, cur, att, faults, completed, buried>>

HandlerSucceeds(c) ==
  /\ pc[c] = "handler"
  /\ completed' = completed \cup {log[cur[c]]}
  /\ pc' = [pc EXCEPT ![c] = IF Deduped THEN "mark" ELSE "ack"]
  /\ UNCHANGED <<streamVars, phase, batch, cur, att, faults, buried>>

\* Mutant: a failed entry is acked too.
HandlerFailsAcks(c) ==
  /\ pc[c] = "handler"
  /\ pending' = [pending EXCEPT ![cur[c]] = 0]
  /\ stale' = stale \ {cur[c]}
  /\ batch' = [batch EXCEPT ![c] = @ \ {cur[c]}]
  /\ pc' = [pc EXCEPT ![c] = "next"]
  /\ Forget(c)
  /\ UNCHANGED <<log, live, last, once, dead, phase, faults, historyVars>>

\* Mutant: a failed entry is put back, with the count read before the handler.
HandlerFailsRequeues(c) ==
  /\ pc[c] = "handler"
  /\ pending' = [pending EXCEPT ![cur[c]] = att[c]]
  /\ batch' = [batch EXCEPT ![c] = @ \ {cur[c]}]
  /\ pc' = [pc EXCEPT ![c] = "next"]
  /\ Forget(c)
  /\ UNCHANGED <<log, live, last, stale, once, dead, phase, faults, historyVars>>

\* The handler raised: the entry stays pending and will be claimed later.
HandlerFails(c) ==
  /\ pc[c] = "handler"
  /\ batch' = [batch EXCEPT ![c] = @ \ {cur[c]}]
  /\ pc' = [pc EXCEPT ![c] = "next"]
  /\ Forget(c)
  /\ UNCHANGED <<streamVars, phase, faults, historyVars>>

MarkOnce(c) ==
  /\ pc[c] = "mark"
  /\ once' = once \cup {log[cur[c]]}
  /\ pc' = [pc EXCEPT ![c] = "ack"]
  /\ UNCHANGED <<log, live, last, pending, stale, dead, phase, batch, cur, att, faults, historyVars>>

\* _dead_letter: copy the payload, then ack.
Bury(c) ==
  /\ pc[c] = "bury"
  /\ dead' = [dead EXCEPT ![log[cur[c]]] = @ + 1]
  /\ buried' = buried \cup {cur[c]}
  /\ pc' = [pc EXCEPT ![c] = "ack"]
  /\ UNCHANGED <<log, live, last, pending, stale, once, phase, batch, cur, att, faults, completed>>

Ack(c) ==
  /\ pc[c] = "ack"
  /\ pending' = [pending EXCEPT ![cur[c]] = 0]
  /\ stale' = stale \ {cur[c]}
  /\ batch' = [batch EXCEPT ![c] = @ \ {cur[c]}]
  /\ pc' = [pc EXCEPT ![c] = "next"]
  /\ Forget(c)
  /\ UNCHANGED <<log, live, last, once, dead, phase, faults, historyVars>>

\* The process dies and is restarted, run() is cancelled, or a backend call
\* raises and run() starts a new iteration: the lists held in memory are gone.
IterationFails(c) ==
  /\ pc[c] # "claim"
  /\ faults < MaxFaults
  /\ faults' = faults + 1
  /\ batch' = [batch EXCEPT ![c] = {}]
  /\ pc' = [pc EXCEPT ![c] = "claim"]
  /\ phase' = [phase EXCEPT ![c] = "stale"]
  /\ Forget(c)
  /\ UNCHANGED <<streamVars, historyVars>>

-----------------------------------------------------------------------------
ConsumerStep(c) ==
  \/ ClaimStale(c) \/ TakeStale(c) \/ ReadNew(c) \/ TakeFresh(c) \/ EndIteration(c)
  \/ CheckOnce(c) \/ HandlerSucceeds(c) \/ HandlerFails(c)
  \/ MarkOnce(c) \/ Bury(c) \/ Ack(c)

Next ==
  \/ \E e \in Envelope : Publish(e) \/ OnceExpires(e) \/ ReplayDeadLetter(e)
  \/ \E i \in EntryId : BecomesStale(i)
  \/ \E c \in Consumer : ConsumerStep(c) \/ IterationFails(c)

Spec == Init /\ [][Next]_vars

-----------------------------------------------------------------------------
(* Properties.                                                             *)

\* An entry that was delivered and is no longer pending is accounted for: its
\* payload was handled to completion by some run, or the entry was copied to
\* the dead-letter stream, or MAXLEN trimmed it (streams.py, _handle and
\* _dead_letter: every path to ack comes after one of the first two).
NothingLost ==
  \A i \in 1..Len(log) :
    i <= last /\ pending[i] = 0 =>
      log[i] \in completed \/ i \in buried \/ i \notin live

\* The key is set only after the handler returned, so a set key means the
\* payload was handled (test_failed_delivery_does_not_mark_dedupe_key_before_
\* reclaim), whatever crashes, retries and other consumers did in between.
OnceMeansCompleted == once \subseteq completed

\* An entry leaves the group only by an ack or a trim and never comes back:
\* once it is delivered and not pending, no consumer delivers it again
\* (a replayed payload is a new entry).
SettledStaysSettled ==
  [][\A i \in EntryId : i <= last /\ pending[i] = 0 => pending'[i] = 0]_vars
=============================================================================
