-------------------------- MODULE TelegramTransport --------------------------
(***************************************************************************)
(* Ingest from Telegram: TelegramTransport.run of src/mybot/adapters/       *)
(* telegram/transport.py against the getUpdates contract (external).        *)
(*                                                                          *)
(* The server keeps updates until a getUpdates call carries a larger        *)
(* offset.  The client advances its offset before it publishes an update to *)
(* the ingest stream, and keeps it only in memory.                          *)
(***************************************************************************)
EXTENDS Naturals

CONSTANTS
  MaxUpdate,       \* bound: updates that ever arrive
  Untranslatable,  \* updates translate_telegram_update drops or raises on
  MaxStops,        \* bound: restarts of the gateway
  MaxFailures      \* bound: failed publishes

ASSUME UpdateAssumption ==
  MaxUpdate \in Nat /\ MaxStops \in Nat /\ MaxFailures \in Nat

VARIABLES
  arrived,   \* updates 1..arrived have reached the server
  confirmed, \* the server has forgotten updates 1..confirmed
  poller,    \* "starting", "polling", "publishing"; "dead": run() has raised
  offset,    \* the offset variable of run(), 0 for None
  next, upto, \* updates of the last response not yet gone through
  added,     \* how often each update was added to the ingest stream
  stops, failures

telegramVars == <<arrived, confirmed, poller, offset, next, upto, added, stops, failures>>

Update == 1..MaxUpdate

TelegramTypeOK ==
  /\ arrived \in 0..MaxUpdate /\ confirmed \in 0..arrived
  /\ poller \in {"starting", "polling", "publishing", "dead"}
  /\ offset \in 0..(arrived + 1)
  /\ next \in Nat /\ upto \in 0..arrived
  /\ added \in [Update -> Nat]
  /\ stops \in 0..MaxStops /\ failures \in 0..MaxFailures

TelegramInit ==
  /\ arrived = 0 /\ confirmed = 0
  /\ poller = "starting" /\ offset = 0 /\ next = 1 /\ upto = 0
  /\ added = [u \in Update |-> 0]
  /\ stops = 0 /\ failures = 0

-----------------------------------------------------------------------------
\* Somebody writes to the bot.
Arrive ==
  /\ arrived < MaxUpdate
  /\ arrived' = arrived + 1
  /\ UNCHANGED <<confirmed, poller, offset, next, upto, added, stops, failures>>

\* _discover_identity succeeds; it retries until then.
Discover ==
  /\ poller = "starting"
  /\ poller' = "polling"
  /\ UNCHANGED <<arrived, confirmed, offset, next, upto, added, stops, failures>>

\* Mutant: getUpdates is called without the offset.
PollFromStart ==
  /\ poller = "polling"
  /\ \/ /\ upto' \in (confirmed + 1)..arrived
        /\ next' = confirmed + 1 /\ poller' = "publishing"
     \/ UNCHANGED <<next, upto, poller>>
  /\ UNCHANGED <<arrived, confirmed, offset, added, stops, failures>>

\* A getUpdates call reaches the server, which forgets what lies below the
\* offset.  Its answer holds the oldest remaining updates, or is lost and the
\* call is retried after a back-off.
Poll ==
  /\ poller = "polling"
  /\ confirmed' = IF offset > confirmed + 1 THEN offset - 1 ELSE confirmed
  /\ \/ /\ upto' \in (confirmed' + 1)..arrived
        /\ next' = confirmed' + 1 /\ poller' = "publishing"
     \/ UNCHANGED <<next, upto, poller>>
  /\ UNCHANGED <<arrived, offset, added, stops, failures>>

\* The loop over the response: the offset first, then the publish.
PublishUpdate ==
  /\ poller = "publishing" /\ next <= upto
  /\ offset' = next + 1
  /\ next' = next + 1
  /\ added' = IF next \in Untranslatable THEN added
              ELSE [added EXCEPT ![next] = @ + 1]
  /\ UNCHANGED <<arrived, confirmed, poller, upto, stops, failures>>

BatchDone ==
  /\ poller = "publishing" /\ next > upto
  /\ poller' = "polling"
  /\ UNCHANGED <<arrived, confirmed, offset, next, upto, added, stops, failures>>

\* Mutant: the loop survives a failed publish and goes on with the next update.
PublishRaisesOn ==
  /\ poller = "publishing" /\ next <= upto /\ next \notin Untranslatable
  /\ failures < MaxFailures /\ failures' = failures + 1
  /\ offset' = next + 1
  /\ next' = next + 1
  /\ UNCHANGED <<arrived, confirmed, poller, upto, added, stops>>

\* publisher.publish raises: nothing catches it, run() ends, and the gateway
\* that started it as a task does not look at it again.
PublishRaises ==
  /\ poller = "publishing" /\ next <= upto /\ next \notin Untranslatable
  /\ failures < MaxFailures /\ failures' = failures + 1
  /\ offset' = next + 1
  /\ poller' = "dead"
  /\ UNCHANGED <<arrived, confirmed, next, upto, added, stops>>

\* Mutant: a stop that keeps the offset of the interrupted loop.
RestartKeepsOffset ==
  /\ stops < MaxStops /\ stops' = stops + 1
  /\ poller' = "starting" /\ next' = 1 /\ upto' = 0
  /\ offset' = IF poller = "publishing" THEN upto + 1 ELSE offset
  /\ UNCHANGED <<arrived, confirmed, added, failures>>

\* The gateway is stopped, or dies, and starts again: offset = None.
RestartPolling ==
  /\ stops < MaxStops /\ stops' = stops + 1
  /\ poller' = "starting" /\ next' = 1 /\ upto' = 0 /\ offset' = 0
  /\ UNCHANGED <<arrived, confirmed, added, failures>>

PollerStep == Discover \/ Poll \/ PublishUpdate \/ BatchDone

TelegramNext == Arrive \/ PollerStep \/ PublishRaises \/ RestartPolling

TelegramSpec == TelegramInit /\ [][TelegramNext]_telegramVars

\* The poller runs, and calls that can be answered are answered now and then.
FairTelegramSpec ==
  /\ TelegramSpec
  /\ WF_telegramVars(Discover) /\ WF_telegramVars(PublishUpdate) /\ WF_telegramVars(BatchDone)
  /\ SF_telegramVars(Poll /\ poller' = "publishing")

-----------------------------------------------------------------------------
\* Whatever the server has forgotten is in the ingest stream: the offset runs
\* ahead of the publish only in memory, and a publish that fails ends the loop
\* before the next getUpdates could confirm the update (run).
ForgottenIsPublished ==
  \A u \in 1..confirmed : added[u] > 0 \/ u \in Untranslatable

\* An update reaches the stream a second time only after a restart, once per
\* restart (run resumes from the server's first unconfirmed update).
RepeatedOnlyByRestarts == \A u \in Update : added[u] <= 1 + stops

\* As long as publishing works, every update reaches the stream in the end,
\* over restarts and lost answers.
UpdatesArePublished ==
  \A u \in Update :
    u <= arrived /\ u \notin Untranslatable ~> added[u] > 0 \/ poller = "dead"
=============================================================================
