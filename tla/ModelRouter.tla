---------------------------- MODULE ModelRouter ----------------------------
(***************************************************************************)
(* The purpose-aware model router of infrastructure/model_routing.py.      *)
(* Every process has a router of its own (a cached channel list and a      *)
(* rotation cursor); the channel list in system_kv and the cool-down keys  *)
(* in Redis are shared by all of them.  One purpose is modelled: cursors   *)
(* and cool-downs of different purposes never meet.  The actions are       *)
(* steps of a caller w and leave the caller's own state to its module.     *)
(***************************************************************************)
EXTENDS Naturals, Sequences, FiniteSets, SequencesExt

CONSTANTS
    Worker,     \* the processes with a router
    Channel,    \* the channels that serve the purpose
    Lists,      \* the sets of enabled channels an operator writes
    Slots,      \* the channels by name, each as often as its weight says
    Priority,   \* Channel -> Nat, lower first
    Tier,       \* the tiers a profile may ask for
    TierOf,     \* Channel -> Tier
    CursorPeriod \* a multiple of every pool's length: the cursor counts modulo it

ASSUME RouterAssumption ==
    /\ Slots \in Seq(Channel)
    /\ Channel = {Slots[i] : i \in 1..Len(Slots)}
    /\ Lists \subseteq SUBSET Channel /\ Channel \in Lists
    /\ Priority \in [Channel -> Nat]
    /\ "default" \in Tier
    /\ TierOf \in [Channel -> Tier]
    /\ CursorPeriod \in Nat \ {0}

VARIABLES
    config,   \* the enabled channels in system_kv
    held,     \* w -> the channel list the process has cached
    cached,   \* the processes that have a cached list
    cursor,   \* w -> how many groups the process has rotated
    cooling,  \* the channels with a cool-down key
    left      \* w -> the candidates its call has not tried yet

routerVars == <<config, held, cached, cursor, cooling, left>>

RouterInit ==
    /\ config = Channel
    /\ held = [w \in Worker |-> {}] /\ cached = {}
    /\ cursor = [w \in Worker |-> 0]
    /\ cooling = {}
    /\ left = [w \in Worker |-> <<>>]

RouterTypeOK ==
    /\ config \in Lists
    /\ held \in [Worker -> SUBSET Channel] /\ cached \subseteq Worker
    /\ cursor \in [Worker -> 0..(CursorPeriod - 1)]
    /\ cooling \in SUBSET Channel
    /\ left \in [Worker -> Seq(Channel)]

\* The operator writes models.channels.
EditChannels ==
    /\ config' \in Lists \ {config}
    /\ UNCHANGED <<held, cached, cursor, cooling, left>>

\* _channels(): the cached list within its time to live, else the one in
\* system_kv.  Only this test sees the time: whether it has run out is free.
Channels(w) == {config} \cup (IF w \in cached THEN {held[w]} ELSE {})

\* The tier asked for, else the default tier, else every channel.
Matching(list, tier) ==
    LET of(t) == {c \in list : TierOf[c] = t} IN
    CASE of(tier) # {} -> of(tier)
      [] of(tier) = {} /\ of("default") # {} -> of("default")
      [] OTHER -> list

Groups(list) == {Priority[c] : c \in list}

\* The weighted pool of one priority, by name.
Pool(list, p) == SelectSeq(Slots, LAMBDA c : c \in list /\ Priority[c] = p)

\* The cursor a priority group sees: it moves on by one for every group.
CursorOf(list, p, k) == k + Cardinality({q \in Groups(list) : q < p})

\* How far a channel is from the cursor of its group.
Lead(list, c, k) ==
    LET pool == Pool(list, Priority[c])
        at(o) == pool[((CursorOf(list, Priority[c], k) + o) % Len(pool)) + 1]
    IN  CHOOSE o \in 0..(Len(pool) - 1) :
            /\ at(o) = c
            /\ \A e \in 0..(o - 1) : at(e) # c

\* The channels by priority, each group rotated to its cursor.
Ordered(list, k) ==
    SetToSortSeq(list, LAMBDA c, d :
        \/ Priority[c] < Priority[d]
        \/ Priority[c] = Priority[d] /\ Lead(list, c, k) < Lead(list, d, k))

\* complete() begins: _candidates() caches the list, moves the cursor once per
\* priority group and leaves out the channels whose cool-down key still exists.
SelectCandidates(w, tier) ==
    \E list \in Channels(w), over \in SUBSET cooling :
        LET match == Matching(list, tier) IN
        /\ held' = [held EXCEPT ![w] = list] /\ cached' = cached \cup {w}
        /\ cursor' = [cursor EXCEPT ![w] = (@ + Cardinality(Groups(match))) % CursorPeriod]
        /\ cooling' = cooling \ over
        /\ left' = [left EXCEPT
               ![w] = SelectSeq(Ordered(match, cursor[w]), LAMBDA c : c \notin cooling')]
        /\ UNCHANGED config

\* The next candidate answers: the call is over.
ChannelAnswers(w) ==
    /\ left[w] # <<>>
    /\ left' = [left EXCEPT ![w] = <<>>]
    /\ UNCHANGED <<config, held, cached, cursor, cooling>>

\* A transport error, 429 or 5xx: the channel cools down, the next one is tried.
ChannelFails(w) ==
    /\ left[w] # <<>>
    /\ cooling' = cooling \cup {Head(left[w])}
    /\ left' = [left EXCEPT ![w] = Tail(@)]
    /\ UNCHANGED <<config, held, cached, cursor>>

\* Any other status, or an answer without content, is not tried elsewhere.
ChannelRejects(w) ==
    /\ left[w] # <<>>
    /\ left' = [left EXCEPT ![w] = <<>>]
    /\ UNCHANGED <<config, held, cached, cursor, cooling>>

\* No candidate is left: the last error, or "no available model channel".
Exhausted(w) ==
    /\ left[w] = <<>>
    /\ UNCHANGED routerVars

\* A call that is cancelled, or whose process ends; a new process has no cache.
CallEnds(w) ==
    /\ left' = [left EXCEPT ![w] = <<>>]
    /\ UNCHANGED <<config, held, cached, cursor, cooling>>

RouterRestarts(w) ==
    /\ left' = [left EXCEPT ![w] = <<>>]
    /\ held' = [held EXCEPT ![w] = {}] /\ cached' = cached \ {w}
    /\ cursor' = [cursor EXCEPT ![w] = 0]
    /\ UNCHANGED <<config, cooling>>
=============================================================================
