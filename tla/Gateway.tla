------------------------------ MODULE Gateway ------------------------------
(***************************************************************************)
(* Outbound delivery: GatewayService.deliver_payload of                     *)
(* src/mybot/services/gateway.py as the handler of the outbound stream,     *)
(* with send_reply of the Telegram and QQ transports under src/mybot/       *)
(* adapters.  The outbound stream has no dedupe key.                        *)
(*                                                                          *)
(* A reply is sent segment by segment; every send is one call to the        *)
(* platform, which may accept it although the call fails (a lost answer, a  *)
(* timeout, a cancellation while it is awaited).                            *)
(***************************************************************************)
EXTENDS StreamConsumer

CONSTANTS
  Segments,    \* segments of the reply in each outbound message
  Unroutable,  \* messages without an adapter, or that do not parse
  MaxCancels,  \* bound: shutdowns that cancel a delivery
  MaxLapses    \* bound: accepted sends whose call fails, failed mark_delivered

ASSUME SegmentsAssumption == Segments \in [Envelope -> Nat] /\ Unroutable \subseteq Envelope
ASSUME OutboundAssumption ==
  Deduped = FALSE /\ MaxCancels \in Nat /\ MaxLapses \in Nat

VARIABLES
  stage,     \* "idle", "send" or "complete", for each gateway
  sent,      \* segments each gateway's current send_reply got through
  wire,      \* how often the platform accepted segment s of message m
  accepted,  \* how often send_reply returned for each message
  delivered, \* messages whose row carries a platform message id
  cancels, lapses,
  excused    \* history: messages that a crash after their acceptance, a failed
             \* mark_delivered or a second reader of their entry may repeat

deliveryVars == <<stage, sent, wire, accepted, delivered, cancels, lapses, excused>>
gatewayVars == <<vars, deliveryVars>>

Slot == UNION {{m} \X (1..Segments[m]) : m \in Envelope}

GatewayTypeOK ==
  /\ TypeOK
  /\ stage \in [Consumer -> {"idle", "send", "complete"}]
  /\ sent \in [Consumer -> Nat]
  /\ wire \in [Slot -> Nat] /\ accepted \in [Envelope -> Nat]
  /\ delivered \subseteq Envelope /\ excused \subseteq Envelope
  /\ cancels \in 0..MaxCancels /\ lapses \in 0..MaxLapses
  /\ \A c \in Consumer : stage[c] = "idle" <=> pc[c] # "handler"

GatewayInit ==
  /\ Init
  /\ stage = [c \in Consumer |-> "idle"] /\ sent = [c \in Consumer |-> 0]
  /\ wire = [w \in Slot |-> 0] /\ accepted = [m \in Envelope |-> 0]
  /\ delivered = {} /\ excused = {} /\ cancels = 0 /\ lapses = 0

Message(c) == log[cur[c]]
Enter(c, s) == stage' = [stage EXCEPT ![c] = s]
Rewind(c) == sent' = [sent EXCEPT ![c] = 0]

-----------------------------------------------------------------------------
\* _handle calls deliver_payload; the adapter is looked up first.
Dispatch(c) ==
  /\ CheckOnce(c)
  /\ Enter(c, IF pc'[c] = "handler" THEN "send" ELSE "idle")
  /\ UNCHANGED <<sent, wire, accepted, delivered, cancels, lapses, excused>>

\* Mutant: a failed delivery is swallowed.
SendFailsSwallowed(c) ==
  /\ stage[c] = "send"
  /\ HandlerSucceeds(c) /\ Enter(c, "idle") /\ Rewind(c)
  /\ UNCHANGED <<wire, accepted, delivered, cancels, lapses, excused>>

\* No adapter, or a platform call that is refused: the delivery fails.
SendFails(c) ==
  /\ stage[c] = "send"
  /\ HandlerFails(c) /\ Enter(c, "idle") /\ Rewind(c)
  /\ UNCHANGED <<wire, accepted, delivered, cancels, lapses, excused>>

NextSlot(c) == <<Message(c), sent[c] + 1>>

\* Mutant: segments are sent from the last to the first.
SendSegmentBackwards(c) ==
  LET slot == <<Message(c), Segments[Message(c)] - sent[c]>> IN
  /\ stage[c] = "send" /\ Message(c) \notin Unroutable
  /\ sent[c] < Segments[Message(c)]
  /\ wire' = [wire EXCEPT ![slot] = @ + 1]
  /\ sent' = [sent EXCEPT ![c] = @ + 1]
  /\ UNCHANGED <<vars, stage, accepted, delivered, cancels, lapses, excused>>

\* One iteration of send_reply's loop.
SendSegment(c) ==
  /\ stage[c] = "send" /\ Message(c) \notin Unroutable
  /\ sent[c] < Segments[Message(c)]
  /\ wire' = [wire EXCEPT ![NextSlot(c)] = @ + 1]
  /\ sent' = [sent EXCEPT ![c] = @ + 1]
  /\ UNCHANGED <<vars, stage, accepted, delivered, cancels, lapses, excused>>

\* The platform accepts a segment but the call raises: the whole reply will be
\* sent again.
SendLapses(c) ==
  /\ stage[c] = "send" /\ Message(c) \notin Unroutable
  /\ sent[c] < Segments[Message(c)] /\ lapses < MaxLapses
  /\ lapses' = lapses + 1
  /\ wire' = [wire EXCEPT ![NextSlot(c)] = @ + 1]
  /\ HandlerFails(c) /\ Enter(c, "idle") /\ Rewind(c)
  /\ UNCHANGED <<accepted, delivered, cancels, excused>>

\* send_reply returns the last message id; _complete_delivery starts.
SendReturns(c) ==
  /\ stage[c] = "send" /\ Message(c) \notin Unroutable
  /\ sent[c] = Segments[Message(c)]
  /\ accepted' = [accepted EXCEPT ![Message(c)] = @ + 1]
  /\ Enter(c, "complete")
  /\ UNCHANGED <<vars, sent, wire, delivered, cancels, lapses, excused>>

\* mark_delivered commits and the handler returns.
MarkDelivered(c) ==
  /\ stage[c] = "complete"
  /\ delivered' = delivered \cup {Message(c)}
  /\ HandlerSucceeds(c) /\ Enter(c, "idle") /\ Rewind(c)
  /\ UNCHANGED <<wire, accepted, cancels, lapses, excused>>

\* mark_delivered raises: the entry stays pending although the platform has
\* the reply.
MarkFails(c) ==
  /\ stage[c] = "complete" /\ lapses < MaxLapses
  /\ lapses' = lapses + 1
  /\ HandlerFails(c) /\ Enter(c, "idle") /\ Rewind(c)
  /\ excused' = excused \cup {Message(c)}
  /\ UNCHANGED <<wire, accepted, delivered, cancels>>

\* Mutant: the completion is not shielded from the cancellation.
CancelUnshielded(c) ==
  /\ stage[c] # "idle" /\ cancels < MaxCancels
  /\ cancels' = cancels + 1
  /\ IterationFails(c) /\ Enter(c, "idle") /\ Rewind(c)
  /\ UNCHANGED <<wire, accepted, delivered, lapses, excused>>

\* A shutdown cancels the delivery: while it sends, CancelledError ends run(),
\* the segment in flight accepted or not; while it completes, the shielded task
\* is awaited and the cancellation has no effect.
Cancel(c) ==
  /\ stage[c] # "idle" /\ cancels < MaxCancels
  /\ cancels' = cancels + 1
  /\ \/ /\ stage[c] = "send"
        /\ \/ UNCHANGED wire
           \/ /\ sent[c] < Segments[Message(c)] /\ Message(c) \notin Unroutable
              /\ wire' = [wire EXCEPT ![NextSlot(c)] = @ + 1]
        /\ IterationFails(c) /\ Enter(c, "idle") /\ Rewind(c)
     \/ stage[c] = "complete" /\ UNCHANGED <<vars, stage, sent, wire>>
  /\ UNCHANGED <<accepted, delivered, lapses, excused>>

\* The process dies, or a stream call raises outside the handler.
Crash(c) ==
  /\ IterationFails(c) /\ Enter(c, "idle") /\ Rewind(c)
  /\ excused' = IF stage[c] = "complete" \/ pc[c] = "ack"
                  THEN excused \cup {Message(c)} ELSE excused
  /\ UNCHANGED <<wire, accepted, delivered, cancels, lapses>>

-----------------------------------------------------------------------------
DeliveryStep(c) ==
  \/ Dispatch(c) \/ SendFails(c) \/ SendSegment(c) \/ SendLapses(c) \/ SendReturns(c)
  \/ MarkDelivered(c) \/ MarkFails(c) \/ Cancel(c) \/ Crash(c)

\* The parts of process_available outside the handler (MarkOnce is for streams
\* with a dedupe key).
LoopStep(c) ==
  /\ \/ ClaimStale(c) \/ TakeStale(c) \/ ReadNew(c) \/ TakeFresh(c) \/ EndIteration(c)
     \/ Bury(c) \/ Ack(c)
  /\ excused' = excused \cup
       {log[i] : i \in {j \in batch'[c] : \E d \in Consumer \ {c} : j \in batch[d]}}
  /\ UNCHANGED <<stage, sent, wire, accepted, delivered, cancels, lapses>>

\* A worker publishes a reply under a fresh internal message id.
PublishOutbound(m) ==
  /\ \A i \in 1..Len(log) : log[i] # m
  /\ Publish(m)

GatewayNext ==
  \/ \E c \in Consumer : DeliveryStep(c) \/ LoopStep(c)
  \/ \E m \in Envelope :
       (PublishOutbound(m) \/ ReplayDeadLetter(m)) /\ UNCHANGED deliveryVars
  \/ \E i \in EntryId : BecomesStale(i) /\ UNCHANGED deliveryVars

GatewaySpec == GatewayInit /\ [][GatewayNext]_gatewayVars

-----------------------------------------------------------------------------
\* README.md: "Replies are delivered at-least-once".  An outbound message that
\* was acked was accepted by the platform in full and its row carries the
\* platform's id, or it is a dead letter, or MAXLEN trimmed it; no crash,
\* cancellation or lost answer lets the ack overtake the delivery.
AtLeastOnce ==
  \A i \in 1..Len(log) :
    i <= last /\ pending[i] = 0 =>
      \/ i \in buried \/ i \notin live
      \/ /\ log[i] \in delivered
         /\ \A w \in Slot : w[1] = log[i] => wire[w] > 0

\* send_reply: over all retries, replicas and interruptions the platform has
\* seen segment s of a message at least as often as segment s + 1, so what a
\* user sees of an interrupted reply is a beginning of it.
RepliesAreGrowing ==
  \A v, w \in Slot : v[1] = w[1] /\ v[2] <= w[2] => wire[v] >= wire[w]

\* gateway.py, _deliver: the shielded completion exists "so the stream handler
\* can ack instead of sending it twice".  A message is accepted in full more
\* often than it is in the stream only if the process died between the
\* acceptance and the ack, mark_delivered failed, or another gateway claimed
\* the entry while this one was still at it; refused or lost calls and shutdowns
\* during a delivery never do that.
AcceptedOnce ==
  \A m \in Envelope :
    accepted[m] > Cardinality({i \in 1..Len(log) : log[i] = m}) => m \in excused
=============================================================================
