----------------------------- MODULE TurnGuards -----------------------------
(***************************************************************************)
(* The guards before a turn: engine/guards.py, with the shared counters of *)
(* infrastructure/streams.py.  A counter is a key of one user or one       *)
(* conversation and one minute; the minute is read once, when the check    *)
(* begins, and each counter is incremented in a step of its own.           *)
(***************************************************************************)
EXTENDS Handlers

CONSTANTS
    UserLimit,  \* user_per_minute; 0 would turn the limit off
    ChatLimit,  \* chat_per_minute
    MaxMinute   \* bound: minutes

ASSUME GuardsAssumption == {UserLimit, ChatLimit} \subseteq Nat \ {0} /\ MaxMinute \in Nat

UserKey(u, t) == <<"user", u, t>>
ChatKey(c, t) == <<"chat", c, t>>
Keys == {UserKey(u, t) : u \in User, t \in 0..MaxMinute}
            \cup {ChatKey(c, t) : c \in Place, t \in 0..MaxMinute}

VARIABLES
    minute,
    count,    \* key -> its counter
    cooling,  \* the groups whose cooldown is running
    granted,  \* history: key -> the turns the guards let through under it
    refused   \* history: key -> the turns refused under it

guardVars == <<minute, count, cooling, granted, refused>>

GuardsTypeOK ==
    /\ minute \in 0..MaxMinute
    /\ {count, granted, refused} \subseteq [Keys -> Nat]
    /\ cooling \subseteq {Group}

GuardsInit ==
    /\ minute = 0 /\ cooling = {}
    /\ count = [k \in Keys |-> 0]
    /\ granted = [k \in Keys |-> 0]
    /\ refused = [k \in Keys |-> 0]

\* check(): a bot or an echo is ignored and a command passes; any other turn
\* is counted under the minute it finds now.
Guarded(p, decision) ==
    \/ Done(p)
    \/ decision = "command" /\ Goto(p, "answer")
    \/ decision = "agent" /\ Read(p, "countUser", minute)

\* Mutant: the refusal is sent for every turn over the limit.
CounterVerdictTalkative(p, k, limit, next) ==
    /\ count' = [count EXCEPT ![k] = @ + 1]
    /\ IF count[k] < limit
       THEN Goto(p, next) /\ UNCHANGED refused
       ELSE Goto(p, "answer") /\ refused' = [refused EXCEPT ![k] = @ + 1]

\* _counter_verdict: within the limit the check goes on, the first turn over
\* it is answered with a refusal, the later ones are ignored.
CounterVerdict(p, k, limit, next) ==
    /\ count' = [count EXCEPT ![k] = @ + 1]
    /\ IF count[k] < limit
       THEN Goto(p, next) /\ UNCHANGED refused
       ELSE IF count[k] = limit
       THEN Goto(p, "answer") /\ refused' = [refused EXCEPT ![k] = @ + 1]
       ELSE Done(p) /\ UNCHANGED refused

CountUser(p) ==
    /\ stage[p] = "countUser"
    /\ CounterVerdict(p, UserKey(who[p], base[p]), UserLimit, "countChat")
    /\ UNCHANGED <<minute, cooling, granted>>

CountChat(p) ==
    /\ stage[p] = "countChat"
    /\ CounterVerdict(p, ChatKey(place[p], base[p]), ChatLimit, "cool")
    /\ UNCHANGED <<minute, cooling, granted>>

Grant(p) ==
    LET keys == {UserKey(who[p], base[p]), ChatKey(place[p], base[p])}
    IN  /\ granted' = [k \in Keys |-> IF k \in keys THEN granted[k] + 1 ELSE granted[k]]
        /\ Goto(p, "answer")

\* The size cap refuses; a group is ignored until its cooldown has run out.
Cool(p) ==
    /\ stage[p] = "cool"
    /\ \/ Goto(p, "answer") /\ UNCHANGED <<granted, cooling>>
       \/ place[p] # Group /\ Grant(p) /\ UNCHANGED cooling
       \/ place[p] = Group /\ Group \notin cooling
          /\ Grant(p) /\ cooling' = {Group}
       \/ place[p] = Group /\ Group \in cooling
          /\ Done(p) /\ UNCHANGED <<granted, cooling>>
    /\ UNCHANGED <<minute, count, refused>>

\* _guard_refusal: a check that raises lets the turn through; the increment
\* whose answer was lost may have been made.
GuardFails(p) ==
    /\ stage[p] \in {"countUser", "countChat", "cool"} /\ faults < MaxFaults
    /\ \/ UNCHANGED count
       \/ stage[p] = "countUser"
          /\ count' = [count EXCEPT ![UserKey(who[p], base[p])] = @ + 1]
       \/ stage[p] = "countChat"
          /\ count' = [count EXCEPT ![ChatKey(place[p], base[p])] = @ + 1]
    /\ stage' = [stage EXCEPT ![p] = "answer"]
    /\ faults' = faults + 1
    /\ UNCHANGED <<who, place, pick, base, jobs, minute, cooling, granted, refused>>

MinutePasses ==
    /\ minute < MaxMinute /\ minute' = minute + 1
    /\ Outside /\ UNCHANGED <<count, cooling, granted, refused>>

CooldownEnds ==
    /\ cooling # {} /\ cooling' = {}
    /\ Outside /\ UNCHANGED <<minute, count, granted, refused>>

\* However the turns of a user and of a conversation interleave, no more than
\* the limit of a minute get through (but for those whose check failed), and
\* at most one is answered with the refusal: the others are ignored.
RateLimited ==
    \A k \in Keys :
        /\ granted[k] <= IF k[1] = "user" THEN UserLimit ELSE ChatLimit
        /\ refused[k] <= 1
=============================================================================
