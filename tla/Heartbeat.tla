------------------------------ MODULE Heartbeat ------------------------------
(***************************************************************************)
(* Proactive check-ins: services/proactive.py.  Every maintenance worker   *)
(* sweeps the conversations an operator has opted in; a key with a time to *)
(* live, shared by all of them, keeps the check-ins of a conversation an   *)
(* interval apart.                                                         *)
(***************************************************************************)
EXTENDS Naturals, FiniteSets

CONSTANTS
    Sweeper,     \* maintenance workers
    Chat,        \* stable keys an operator may list
    Reachable,   \* those of conversations that exist and are not ephemeral
    NoChat,
    Interval,    \* min_interval_hours
    Day, QuietStart, QuietEnd,  \* hours of a day, quiet_start_hour, quiet_end_hour
    MaxBeats     \* bound: passes, changes of the list and hours

ASSUME HeartbeatAssumption ==
    /\ IsFiniteSet(Sweeper)
    /\ Reachable \subseteq Chat /\ NoChat \notin Chat
    /\ Interval \in Nat \ {0} /\ Day \in Nat \ {0}
    /\ QuietStart \in 0..(Day - 1) /\ QuietEnd \in 0..(Day - 1)
    /\ MaxBeats \in Nat

VARIABLES
    optedIn,  \* proactive.enabled_conversations
    until,    \* Chat -> the hour its key expires
    hour,     \* hours since the first one
    beat,     \* w -> what its pass is doing
    todo,     \* w -> the entries of the list it has not come to yet
    chat,     \* w -> the conversation it is at
    rows,     \* Chat -> check-ins recorded in the messages table
    sent,     \* Chat -> check-ins published
    beats

heartbeatVars == <<optedIn, until, hour, beat, todo, chat, rows, sent, beats>>

HeartbeatTypeOK ==
    /\ optedIn \subseteq Chat
    /\ until \in [Chat -> Nat] /\ hour \in Nat
    /\ beat \in [Sweeper -> {"idle", "sweep", "generate", "record", "publish"}]
    /\ todo \in [Sweeper -> SUBSET Chat]
    /\ chat \in [Sweeper -> Chat \cup {NoChat}]
    /\ rows \in [Chat -> Nat] /\ sent \in [Chat -> Nat]
    /\ beats \in 0..MaxBeats

HeartbeatInit ==
    /\ optedIn = {}
    /\ until = [c \in Chat |-> 0] /\ hour = 0
    /\ beat = [w \in Sweeper |-> "idle"]
    /\ todo = [w \in Sweeper |-> {}]
    /\ chat = [w \in Sweeper |-> NoChat]
    /\ rows = [c \in Chat |-> 0] /\ sent = [c \in Chat |-> 0]
    /\ beats = 0

Counted == beats < MaxBeats /\ beats' = beats + 1

Sweeps(w, at) ==
    /\ beat' = [beat EXCEPT ![w] = at]
    /\ UNCHANGED <<optedIn, hour>>

\* The operator saves the list.
SetProactive(list) ==
    /\ list # optedIn /\ Counted
    /\ optedIn' = list
    /\ UNCHANGED <<until, hour, beat, todo, chat, rows, sent>>

\* in_quiet_hours: no window if both ends are equal; it may wrap midnight.
InQuietHours(h) ==
    /\ QuietStart # QuietEnd
    /\ IF QuietStart < QuietEnd
       THEN QuietStart <= h /\ h < QuietEnd
       ELSE h >= QuietStart \/ h < QuietEnd

\* run_pass: the hour and the list are read once, at the start.
RunPass(w) ==
    /\ beat[w] = "idle" /\ Counted
    /\ ~InQuietHours(hour % Day) /\ optedIn # {}
    /\ Sweeps(w, "sweep")
    /\ todo' = [todo EXCEPT ![w] = optedIn]
    /\ UNCHANGED <<until, chat, rows, sent>>

\* Mutant: the key is set whether or not it was there.
AcquireAnyway(c) == until' = [until EXCEPT ![c] = hour + Interval]

\* acquire_once: the key is set if it is not there.
AcquireOnce(c) ==
    /\ until[c] <= hour
    /\ until' = [until EXCEPT ![c] = hour + Interval]

\* by_stable_key: the conversation is there and not ephemeral.
Found(c) == c \in Reachable

\* The next entry: skipped if the conversation is missing or ephemeral, or not due.
NextChat(w, c) ==
    /\ beat[w] = "sweep" /\ c \in todo[w]
    /\ todo' = [todo EXCEPT ![w] = @ \ {c}]
    /\ \/ /\ Found(c) /\ AcquireOnce(c)
          /\ chat' = [chat EXCEPT ![w] = c]
          /\ Sweeps(w, "generate")
       \/ /\ ~Found(c) \/ until[c] > hour
          /\ Sweeps(w, "sweep") /\ UNCHANGED <<chat, until>>
    /\ UNCHANGED <<rows, sent, beats>>

\* _generate_and_send: from profile, recent texts and core memory the model
\* writes a message, or there is no model and the preset one is taken ...
Generate(w) ==
    /\ beat[w] = "generate"
    /\ Sweeps(w, "record")
    /\ UNCHANGED <<until, todo, chat, rows, sent, beats>>

\* ... or it answers HEARTBEAT_OK, fails, or anything on the way raises.  The
\* outcome is audited and the key stays: there is no second attempt.
NotSent(w) ==
    /\ beat[w] \in {"generate", "record", "publish"}
    /\ Sweeps(w, "sweep")
    /\ chat' = [chat EXCEPT ![w] = NoChat]
    /\ UNCHANGED <<until, todo, rows, sent, beats>>

\* _send: the message is recorded ...
RecordOutbound(w) ==
    /\ beat[w] = "record"
    /\ Sweeps(w, "publish")
    /\ rows' = [rows EXCEPT ![chat[w]] = @ + 1]
    /\ UNCHANGED <<until, todo, chat, sent, beats>>

\* ... and published; the turn and the audit record follow, fail or not.
Publish(w) ==
    /\ beat[w] = "publish"
    /\ Sweeps(w, "sweep")
    /\ sent' = [sent EXCEPT ![chat[w]] = @ + 1]
    /\ chat' = [chat EXCEPT ![w] = NoChat]
    /\ UNCHANGED <<until, todo, rows, beats>>

\* The pass is through, one of its lookups raises, or the worker ends.
PassEnds(w) ==
    /\ beat[w] # "idle"
    /\ Sweeps(w, "idle")
    /\ todo' = [todo EXCEPT ![w] = {}]
    /\ chat' = [chat EXCEPT ![w] = NoChat]
    /\ UNCHANGED <<until, rows, sent, beats>>

HourPasses ==
    /\ Counted
    /\ hour' = hour + 1
    /\ UNCHANGED <<optedIn, until, beat, todo, chat, rows, sent>>

HeartbeatNext ==
    \/ \E list \in SUBSET Chat : SetProactive(list)
    \/ \E w \in Sweeper :
           \/ RunPass(w) \/ Generate(w) \/ NotSent(w)
           \/ RecordOutbound(w) \/ Publish(w) \/ PassEnds(w)
    \/ \E w \in Sweeper, c \in Chat : NextChat(w, c)
    \/ HourPasses

\* A conversation never gets more than one check-in per interval, however many
\* workers sweep, crash and start again and however the list is edited; each
\* one published is recorded, and the unreachable ones get none.
CheckInsSpaced ==
    \A c \in Chat :
        /\ sent[c] <= rows[c] /\ rows[c] <= 1 + hour \div Interval
        /\ c \notin Reachable => rows[c] = 0
=============================================================================
