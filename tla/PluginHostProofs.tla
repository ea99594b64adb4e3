-------------------------- MODULE PluginHostProofs --------------------------
(***************************************************************************)
(* Proofs for PluginBroker and PluginHost.                                  *)
(*                                                                          *)
(* RunAtMostOnce rests on OnePlace: an invocation that has not run is in at *)
(* most one queue or batch, and one that has run is in none.                *)
(* ConfigMovesForward rests on ConfOrder: what is queued for a child, or is *)
(* on its way to it, is not older than what the child has applied.          *)
(***************************************************************************)
EXTENDS PluginHost, SequenceTheorems, TLAPS

USE DEF vars, brokerVars, childVars, settings, objects

\* An answered poll leaves the last configuration of its object's queue.
LEMMA LastConfig ==
  ASSUME NEW q \in Seq(0..MaxConfig), q # <<>>
  PROVE  q[Len(q)] \in 0..MaxConfig
  <1>1. Len(q) \in 1..Len(q)
    BY EmptySeq
  <1>2. QED
    BY <1>1, ElementOfSeq

\* The empty queue is a queue of configurations.
LEMMA NoConfigs == <<>> \in Seq(0..MaxConfig)
  BY EmptySeq

\* The type of the polls, the part of TypeOK that SMT wants by itself.
PollsOK ==
  /\ polls \in [Poll -> PollRecord]
  /\ \A p \in Poll : polls[p].at = "none" <=> polls[p].on = None

\* What a change of one field leaves of a poll.
LEMMA PollFields ==
  ASSUME NEW b \in PollRecord, NEW a \in {"touch", "parked", "woken"}
  PROVE  /\ [b EXCEPT !.at = a] \in PollRecord
         /\ [b EXCEPT !.at = a].at = a
         /\ [b EXCEPT !.at = a].on = b.on
         /\ [b EXCEPT !.child = None] \in PollRecord
         /\ [b EXCEPT !.child = None].at = b.at
         /\ [b EXCEPT !.child = None].on = b.on
  BY DEF PollRecord

\* wakeup.set() changes sleeping polls only.
LEMMA WokenOK == PollsOK /\ polls' = Woken => PollsOK'
  <1> SUFFICES ASSUME PollsOK, polls' = Woken PROVE PollsOK'
    OBVIOUS
  <1>1. ASSUME NEW p \in Poll PROVE Woken[p] \in PollRecord /\ (Woken[p].at = "none" <=> Woken[p].on = None)
    BY DEF PollsOK, PollRecord, Woken
  <1>2. Woken \in [Poll -> PollRecord]
    BY <1>1 DEF Woken
  <1>3. QED
    BY <1>1, <1>2 DEF PollsOK

\* The initial state is well typed (state.py, an empty store).
LEMMA InitTypeOK == Init => TypeOK
  <1> SUFFICES ASSUME Init PROVE TypeOK
    OBVIOUS
  <1>1. PollsOK
    BY DEF Init, NoPoll, PollsOK, PollRecord
  <1>2. events \in [Object -> Seq(0..MaxConfig)]
    BY NoConfigs DEF Init
  <1>3. QED
    <2>1. granted \in BOOLEAN
      BY DEF Init
    <2>2. /\ work \in [Object -> SUBSET Call] /\ saving \subseteq Child /\ term \subseteq Child
          /\ call \in [Call -> {"idle", "waiting", "ok", "error"}] /\ runs \in [Call -> Nat]
          /\ got \in [Child -> SUBSET Call] /\ doing \in [Child -> Call \cup {None}]
          /\ store \in BOOLEAN /\ reg = None
          /\ unreg \in [Sender -> {"none", "sent", "forget"}]
      BY DEF Init
    <2>3. /\ cpc \in [Child -> {"none", "load", "register", "saving", "idle", "poll", "parked",
                                "run", "report", "bye", "exited"}]
          /\ conf \in [Child -> 0..MaxConfig] /\ config \in 0..MaxConfig /\ faults \in 0..MaxFaults
      BY BrokerAssumption DEF Init
    <2>4. QED
      BY <1>1, <1>2, <2>1, <2>2, <2>3 DEF TypeOK, PollsOK

\* The steps of children keep the types.
LEMMA ChildTypeOK ==
  ASSUME TypeOK, NEW c \in Child, ChildStep(c) \/ ChildFault(c)
  PROVE  TypeOK'
  <1> USE BrokerAssumption DEF TypeOK, PollRecord
  <1>1. CASE Loaded(c)
    BY <1>1 DEF Loaded
  <1>2. CASE Register(c)
    BY <1>2, NoConfigs DEF Register, NewObject, Release
  <1>3. CASE RegisterRefused(c)
    BY <1>3 DEF RegisterRefused
  <1>4. CASE StartPoll(c)
    BY <1>4 DEF StartPoll, Free, NoPoll
  <1>5. CASE PollUnknown(c)
    BY <1>5 DEF PollUnknown
  <1>6. CASE Run(c)
    BY <1>6 DEF Run
  <1>7. CASE Report(c)
    BY <1>7 DEF Report, Resume
  <1>8. CASE ChildStops(c)
    BY <1>8 DEF ChildStops, Sender
  <1>9. CASE ChildExits(c)
    BY <1>9 DEF ChildExits, Gone, Unheard
  <1>10. CASE SaveFails(c)
    BY <1>10 DEF SaveFails, Fault
  <1>11. CASE RegisterLost(c)
    BY <1>11 DEF RegisterLost, Fault
  <1>12. CASE PollBreaks(c)
    BY <1>12 DEF PollBreaks, Unheard, Fault
  <1>13. CASE ReportLost(c)
    BY <1>13 DEF ReportLost, Resume, Fault
  <1>14. CASE ChildCrashes(c)
    BY <1>14 DEF ChildCrashes, Gone, Unheard, Fault
  <1>15. QED
    BY <1>1, <1>2, <1>3, <1>4, <1>5, <1>6, <1>7, <1>8, <1>9, <1>10, <1>11, <1>12, <1>13, <1>14
       DEF ChildStep, ChildFault

\* The handlers of the broker and the callers keep the types.
LEMMA BrokerTypeOK ==
  ASSUME TypeOK,
         \/ BrokerStep
         \/ \E x \in Sender : UnregisterLost(x)
         \/ \E p \in Poll : TouchFails(p)
         \/ \E i \in Call : CallStep(i)
         \/ StoreExpires \/ ApiRestarts \/ SetConfig
  PROVE  TypeOK'
  <1> USE BrokerAssumption DEF TypeOK, PollRecord
  <1>1. ASSUME NEW c \in Child, Saved(c) PROVE TypeOK'
    BY <1>1 DEF Saved
  <1>2. ASSUME NEW x \in Sender, Unregister(x) PROVE TypeOK'
    BY <1>2, NoConfigs DEF Unregister, Release
  <1>3. ASSUME NEW x \in Sender, Forget(x) PROVE TypeOK'
    BY <1>3 DEF Forget
  <1>4. ASSUME NEW p \in Poll, Touched(p) PROVE TypeOK'
    <2> DEFINE a == IF work[polls[p].on] = {} /\ events[polls[p].on] = <<>>
                    THEN "parked" ELSE "woken"
    <2>1. polls' = [polls EXCEPT ![p].at = a] /\ a \in {"parked", "woken"}
      BY <1>4 DEF Touched
    <2> HIDE DEF a
    <2> DEFINE b == [polls[p] EXCEPT !.at = a]
    <2>2. b \in PollRecord /\ b.at = a /\ b.on = polls[p].on /\ polls' = [polls EXCEPT ![p] = b]
      <3>1. polls[p] \in PollRecord /\ a \in {"touch", "parked", "woken"}
        BY <2>1
      <3>2. polls' = [polls EXCEPT ![p] = b]
        BY <2>1
      <3>3. QED
        BY ONLY <3>1, <3>2, PollFields
    <2>5. polls[p].on # None /\ a # "none"
      BY <1>4, <2>1 DEF Touched
    <2> HIDE DEF b
    <2>3. PollsOK'
      BY <2>2, <2>5 DEF PollsOK
    <2>4. QED
      BY <1>4, <2>3 DEF Touched, PollsOK
  <1>5. ASSUME NEW p \in Poll, Answer(p) PROVE TypeOK'
    <2> DEFINE c == polls[p].child
               r == polls[p].on
    <2>1. r \in Object /\ c \in Child \cup {None}
      BY <1>5 DEF Answer
    <2>2. events[r] # <<>> => events[r][Len(events[r])] \in 0..MaxConfig
      BY <2>1, LastConfig
    <2>3. conf' \in [Child -> 0..MaxConfig]
      <3>1. CASE c = None
        BY <1>5, <3>1 DEF Answer
      <3>2. CASE c # None
        <4> DEFINE v == IF events[r] = <<>> THEN conf[c] ELSE events[r][Len(events[r])]
        <4>1. v \in 0..MaxConfig
          BY <2>1, <2>2, <3>2
        <4>2. conf' = [conf EXCEPT ![c] = v]
          BY <1>5, <3>2 DEF Answer
        <4> HIDE DEF v
        <4>3. QED
          BY <4>1, <4>2
      <3>3. QED
        BY <3>1, <3>2
    <2>4. PollsOK'
      BY <1>5 DEF Answer, NoPoll, PollsOK
    <2>5. events' \in [Object -> Seq(0..MaxConfig)] /\ work' \in [Object -> SUBSET Call]
      BY <1>5, NoConfigs DEF Answer
    <2>6. /\ got' \in [Child -> SUBSET Call]
          /\ cpc' \in [Child -> {"none", "load", "register", "saving", "idle", "poll", "parked",
                                "run", "report", "bye", "exited"}]
      <3>1. CASE c = None
        BY <1>5, <3>1 DEF Answer
      <3>2. CASE c # None
        <4>1. work[r] \in SUBSET Call /\ c \in Child
          BY <2>1, <3>2
        <4>2. got' = [got EXCEPT ![c] = work[r]]
          BY <1>5, <3>2 DEF Answer
        <4>3. cpc' = [cpc EXCEPT ![c] = IF work[r] = {} THEN "poll" ELSE "run"]
          BY <1>5, <3>2 DEF Answer
        <4>4. QED
          BY <4>1, <4>2, <4>3
      <3>3. QED
        BY <3>1, <3>2
    <2>7. UNCHANGED <<config, granted, reg, store, saving, unreg, call, runs, doing, term, faults>>
      BY <1>5 DEF Answer
    <2> HIDE DEF c, r
    <2>8. QED
      BY <2>3, <2>4, <2>5, <2>6, <2>7 DEF PollsOK
  <1>6. ASSUME NEW x \in Sender, UnregisterLost(x) PROVE TypeOK'
    BY <1>6 DEF UnregisterLost, Fault
  <1>7. ASSUME NEW p \in Poll, TouchFails(p) PROVE TypeOK'
    BY <1>7 DEF TouchFails, NoPoll, Fault
  <1>8. ASSUME NEW i \in Call, CallStep(i) PROVE TypeOK'
    <2>1. CASE Invoke(i)
      <3>1. PollsOK'
        BY <2>1, WokenOK DEF Invoke, PollsOK
      <3>2. QED
        BY <2>1, <3>1 DEF Invoke, PollsOK
    <2>2. CASE InvokeUnknown(i)
      BY <2>2 DEF InvokeUnknown
    <2>3. CASE CallTimesOut(i)
      BY <2>3 DEF CallTimesOut
    <2>4. QED
      BY <1>8, <2>1, <2>2, <2>3 DEF CallStep
  <1>9. CASE StoreExpires
    BY <1>9 DEF StoreExpires
  <1>10. CASE ApiRestarts
    BY <1>10, NoConfigs DEF ApiRestarts, Fault, NoPoll
  <1>11. CASE SetConfig
    <2>1. config + 1 \in 0..MaxConfig
      BY <1>11 DEF SetConfig
    <2>2. PollsOK'
      BY <1>11, WokenOK DEF SetConfig, PollsOK
    <2>3. events' \in [Object -> Seq(0..MaxConfig)]
      <3>1. CASE reg = None
        BY <1>11, <3>1 DEF SetConfig
      <3>2. CASE reg # None
        <4> DEFINE q == Append(events[reg], config + 1)
        <4>1. q \in Seq(0..MaxConfig)
          BY <2>1, <3>2, AppendProperties
        <4>2. events' = [events EXCEPT ![reg] = q]
          BY <1>11, <3>2 DEF SetConfig
        <4> HIDE DEF q
        <4>3. QED
          BY <4>1, <4>2
      <3>3. QED
        BY <3>1, <3>2
    <2>4. QED
      BY <1>11, <2>1, <2>2, <2>3 DEF SetConfig, PollsOK
  <1>12. QED
    BY <1>1, <1>2, <1>3, <1>4, <1>5, <1>6, <1>7, <1>8, <1>9, <1>10, <1>11 DEF BrokerStep

\* Starting, signalling, killing and collecting children keep the types.
LEMMA LifecycleTypeOK ==
  ASSUME TypeOK, (\E c \in Child : Lifecycle(c)) \/ SendUnregister \/ AllGone
  PROVE  TypeOK'
  <1> USE BrokerAssumption DEF TypeOK, PollRecord
  <1>1. ASSUME NEW c \in Child, NEW v \in 0..config, Start(c, v) PROVE TypeOK'
    BY <1>1 DEF Start
  <1>2. ASSUME NEW c \in Child, Signal(c) PROVE TypeOK'
    BY <1>2 DEF Signal
  <1>3. ASSUME NEW c \in Child, KillChild(c) PROVE TypeOK'
    BY <1>3 DEF KillChild, Gone, Unheard
  <1>4. ASSUME NEW c \in Child, Collect(c) PROVE TypeOK'
    BY <1>4 DEF Collect
  <1>5. CASE SendUnregister
    BY <1>5 DEF SendUnregister, Sender
  <1>6. CASE AllGone
    <2>1. PollsOK'
      <3>1. polls' = [p \in Poll |-> [polls[p] EXCEPT !.child = None]]
        BY <1>6 DEF AllGone
      <3>2. \A p \in Poll : /\ [polls[p] EXCEPT !.child = None] \in PollRecord
                            /\ [polls[p] EXCEPT !.child = None].at = polls[p].at
                            /\ [polls[p] EXCEPT !.child = None].on = polls[p].on
        <4>1. \A p \in Poll : polls[p] \in PollRecord
          OBVIOUS
        <4>2. QED
          BY ONLY <4>1, PollFields
      <3>3. QED
        BY <3>1, <3>2 DEF PollsOK
    <2>2. QED
      BY <1>6, <2>1 DEF AllGone, Fault, PollsOK
  <1>7. QED
    BY <1>1, <1>2, <1>3, <1>4, <1>5, <1>6 DEF Lifecycle

\* Every step of the broker, its clients and the children keeps the types.
LEMMA NextTypeOK == TypeOK /\ [BrokerNext]_vars => TypeOK'
  <1>1. ASSUME TypeOK, UNCHANGED vars PROVE TypeOK'
    BY <1>1 DEF TypeOK
  <1>2. QED
    BY <1>1, ChildTypeOK, BrokerTypeOK, LifecycleTypeOK DEF BrokerNext, Next

\* PluginBroker keeps its types: broker.py, runner.py and state.py, with any number
\* of children, calls, registrations and polls.
THEOREM BrokerTypes == BrokerSpec => []TypeOK
  BY InitTypeOK, NextTypeOK, PTL DEF BrokerSpec

-----------------------------------------------------------------------------
(* No wake-up is lost.                                                     *)

\* A step that parks no poll and queues nothing.
LEMMA QuietSleep ==
  ASSUME TypeOK, NoSleepOnWork,
         \A p \in Poll : polls'[p].at = "parked" =>
           polls[p].at = "parked" /\ polls'[p].on = polls[p].on,
         \A r \in Object : /\ work[r] = {} => work'[r] = {}
                           /\ events[r] = <<>> => events'[r] = <<>>
  PROVE  NoSleepOnWork'
  <1> SUFFICES ASSUME NEW p \in Poll, polls'[p].at = "parked"
               PROVE  work'[polls'[p].on] = {} /\ events'[polls'[p].on] = <<>>
    BY DEF NoSleepOnWork
  <1>1. polls[p].at = "parked" /\ polls'[p].on = polls[p].on
    OBVIOUS
  <1>2. polls[p].on \in Object
    BY <1>1 DEF TypeOK, PollRecord
  <1>3. QED
    BY <1>1, <1>2 DEF NoSleepOnWork

\* wakeup.set() leaves no sleeper on the registered object, and no new one.
LEMMA WokenSleep ==
  ASSUME TypeOK, polls' = Woken, NEW p \in Poll, polls'[p].at = "parked"
  PROVE  polls[p].at = "parked" /\ polls'[p].on = polls[p].on /\ polls[p].on # reg
  BY DEF TypeOK, PollRecord, Woken

\* No step puts a poll to sleep on queued work, or queues without waking.
LEMMA NextSleep == TypeOK /\ NoSleepOnWork /\ [BrokerNext]_vars => NoSleepOnWork'
  <1> SUFFICES ASSUME TypeOK, NoSleepOnWork, [BrokerNext]_vars PROVE NoSleepOnWork'
    OBVIOUS
  <1> USE BrokerAssumption
  \* Steps that touch neither the queues nor the polls.
  <1>1. CASE UNCHANGED <<work, events, polls>>
    BY <1>1 DEF NoSleepOnWork
  <1>2. ASSUME NEW c \in Child, ChildStep(c) \/ ChildFault(c) PROVE NoSleepOnWork'
    <2>1. CASE Register(c)
      BY <2>1, QuietSleep DEF Register, NewObject, Release
    <2>2. CASE StartPoll(c)
      BY <2>2, QuietSleep DEF StartPoll, TypeOK
    <2>3. CASE ChildExits(c) \/ ChildCrashes(c) \/ PollBreaks(c)
      <3>1. polls' = Unheard(c) /\ UNCHANGED <<work, events>>
        BY <2>3 DEF ChildExits, ChildCrashes, Gone, PollBreaks
      <3>2. QED
        BY <3>1, QuietSleep DEF Unheard, TypeOK, PollRecord
    <2>4. QED
      BY <1>1, <1>2, <2>1, <2>2, <2>3
         DEF ChildStep, ChildFault, Loaded, RegisterRefused, PollUnknown, Run, Report, Resume,
             ChildStops, SaveFails, RegisterLost, ReportLost
  <1>3. ASSUME NEW x \in Sender, Unregister(x) PROVE NoSleepOnWork'
    BY <1>3, QuietSleep DEF Unregister, Release
  <1>4. ASSUME NEW p \in Poll, Touched(p) PROVE NoSleepOnWork'
    <2> DEFINE r == polls[p].on
               a == IF work[r] = {} /\ events[r] = <<>> THEN "parked" ELSE "woken"
    <2>1. polls' = [polls EXCEPT ![p] = [polls[p] EXCEPT !.at = a]] /\ UNCHANGED <<work, events>>
      BY <1>4 DEF Touched
    <2>2. /\ polls[p] \in PollRecord
          /\ a \in {"touch", "parked", "woken"}
      BY DEF TypeOK
    <2>3. [polls[p] EXCEPT !.at = a].at = a /\ [polls[p] EXCEPT !.at = a].on = r
      BY ONLY <2>2, PollFields
    <2>4. polls \in [Poll -> PollRecord]
      BY DEF TypeOK
    <2>5. ASSUME NEW q \in Poll, polls'[q].at = "parked"
          PROVE  work[polls'[q].on] = {} /\ events[polls'[q].on] = <<>>
      <3>1. CASE q = p
        BY <2>1, <2>3, <2>4, <2>5, <3>1
      <3>2. CASE q # p
        BY <2>1, <2>4, <2>5, <3>2 DEF NoSleepOnWork
      <3>3. QED
        BY <3>1, <3>2
    <2>6. QED
      BY <2>1, <2>5 DEF NoSleepOnWork
  <1>5. ASSUME NEW p \in Poll, Answer(p) PROVE NoSleepOnWork'
    BY <1>5, QuietSleep DEF Answer, NoPoll, TypeOK
  <1>6. ASSUME NEW p \in Poll, TouchFails(p) PROVE NoSleepOnWork'
    BY <1>6, QuietSleep DEF TouchFails, NoPoll, TypeOK
  <1>7. ASSUME NEW i \in Call, Invoke(i) PROVE NoSleepOnWork'
    <2> SUFFICES ASSUME NEW p \in Poll, polls'[p].at = "parked"
                 PROVE  work'[polls'[p].on] = {} /\ events'[polls'[p].on] = <<>>
      BY DEF NoSleepOnWork
    <2>1. polls[p].at = "parked" /\ polls'[p].on = polls[p].on /\ polls[p].on # reg
      BY <1>7, WokenSleep DEF Invoke
    <2>2. polls[p].on \in Object
      BY <2>1 DEF TypeOK, PollRecord
    <2>3. QED
      BY <1>7, <2>1, <2>2 DEF Invoke, TypeOK, NoSleepOnWork
  <1>8. CASE SetConfig
    <2> SUFFICES ASSUME NEW p \in Poll, polls'[p].at = "parked", reg # None
                 PROVE  work'[polls'[p].on] = {} /\ events'[polls'[p].on] = <<>>
      BY <1>8, <1>1 DEF NoSleepOnWork, SetConfig
    <2>1. polls[p].at = "parked" /\ polls'[p].on = polls[p].on /\ polls[p].on # reg
      BY <1>8, WokenSleep DEF SetConfig
    <2>2. polls[p].on \in Object
      BY <2>1 DEF TypeOK, PollRecord
    <2> DEFINE q == Append(events[reg], config + 1)
    <2>3. events' = [events EXCEPT ![reg] = q] /\ work' = work
      BY <1>8 DEF SetConfig
    <2> HIDE DEF q
    <2>4. QED
      BY <2>1, <2>2, <2>3 DEF TypeOK, NoSleepOnWork
  <1>9. CASE ApiRestarts
    BY <1>9, QuietSleep DEF ApiRestarts, NoPoll
  <1>10. ASSUME NEW c \in Child, Lifecycle(c) PROVE NoSleepOnWork'
    <2>1. CASE KillChild(c)
      BY <2>1, QuietSleep DEF KillChild, Gone, Unheard, TypeOK, PollRecord
    <2>2. QED
      BY <1>1, <1>10, <2>1 DEF Lifecycle, Start, Signal, Collect
  <1>11. CASE AllGone
    BY <1>11, QuietSleep DEF AllGone, TypeOK, PollRecord
  <1>12. QED
    BY <1>1, <1>2, <1>3, <1>4, <1>5, <1>6, <1>7, <1>8, <1>9, <1>10, <1>11
       DEF BrokerNext, Next, BrokerStep, CallStep, Saved, Forget, UnregisterLost, InvokeUnknown,
           CallTimesOut, StoreExpires, SendUnregister

\* broker.py work() and invoke(): no wake-up is lost, however registrations, polls
\* of dead children and configurations interleave.
THEOREM NoLostWakeup == BrokerSpec => []NoSleepOnWork
  <1>1. Init => NoSleepOnWork
    BY DEF Init, NoPoll, NoSleepOnWork
  <1>2. QED
    BY <1>1, BrokerTypes, NextSleep, PTL DEF BrokerSpec

-----------------------------------------------------------------------------
(* An invocation runs at most once.                                        *)

\* An invocation that has not run is in at most one place: a queue of an object or
\* the batch of a child.  One that has run is in none.
OnePlace ==
  \A i \in Call :
    /\ call[i] = "idle" => /\ runs[i] = 0
                           /\ \A r \in Object : i \notin work[r]
                           /\ \A c \in Child : i \notin got[c]
    /\ \A r \in Object : i \in work[r] =>
         /\ runs[i] = 0
         /\ \A q \in Object : i \in work[q] => q = r
         /\ \A c \in Child : i \notin got[c]
    /\ \A c \in Child : i \in got[c] =>
         runs[i] = 0 /\ \A b \in Child : i \in got[b] => b = c
    /\ \A c \in Child : doing[c] = i => runs[i] = 1
    /\ runs[i] \in {0, 1}
    /\ call[i] = "ok" => runs[i] = 1

\* A step that runs nothing and at most takes invocations away.
LEMMA QuietPlace ==
  ASSUME OnePlace, runs' = runs,
         \A r \in Object : work'[r] \subseteq work[r],
         \A c \in Child : got'[c] \subseteq got[c],
         \A c \in Child : doing'[c] \in {doing[c], None},
         \A i \in Call : /\ call'[i] = "idle" => call[i] = "idle"
                         /\ call'[i] = "ok" => runs[i] = 1
  PROVE  OnePlace'
  <1>1. \A c \in Child, i \in Call : doing'[c] = i => doing[c] = i
    BY BrokerAssumption
  <1>2. QED
    BY <1>1 DEF OnePlace

\* Every step keeps an invocation in one place at most.
LEMMA NextPlace == TypeOK /\ OnePlace /\ [BrokerNext]_vars => OnePlace'
  <1> SUFFICES ASSUME TypeOK, OnePlace, [BrokerNext]_vars PROVE OnePlace'
    OBVIOUS
  <1>a. \A i \in Call : call[i] = "ok" => runs[i] = 1
    BY DEF OnePlace
  <1>1. CASE UNCHANGED <<work, got, doing, runs, call>>
    BY <1>1 DEF OnePlace
  <1>2. ASSUME NEW c \in Child, ChildStep(c) \/ ChildFault(c) PROVE OnePlace'
    <2>1. CASE Register(c)
      BY <2>1, <1>a, QuietPlace DEF Register, NewObject, Release
    <2>2. CASE Run(c)
      <3>1. PICK i \in got[c] : /\ runs' = [runs EXCEPT ![i] = @ + 1]
                               /\ got' = [got EXCEPT ![c] = @ \ {i}]
                               /\ doing' = [doing EXCEPT ![c] = i]
                               /\ UNCHANGED <<work, call>>
        BY <2>2 DEF Run
      <3>2. i \in Call /\ runs[i] = 0 /\ call[i] \notin {"idle", "ok"}
        BY DEF OnePlace, TypeOK
      <3>3. runs' = [runs EXCEPT ![i] = 1]
        BY <3>1, <3>2
      <3>4. /\ \A r \in Object : i \notin work[r]
            /\ \A b \in Child : i \notin got'[b] /\ got'[b] \subseteq got[b]
        BY <3>1, <3>2 DEF OnePlace, TypeOK
      <3>5. \A b \in Child, j \in Call : doing'[b] = j => doing[b] = j \/ j = i
        BY <3>1 DEF TypeOK
      <3>6. runs'[i] = 1 /\ \A j \in Call \ {i} : runs'[j] = runs[j]
        BY <3>2, <3>3 DEF TypeOK
      <3>7. QED
        BY <3>1, <3>2, <3>4, <3>5, <3>6 DEF OnePlace
    <2>3. CASE Report(c)
      BY <2>3, <1>a, QuietPlace DEF Report, Resume, TypeOK, OnePlace
    <2>4. CASE ReportLost(c)
      BY <2>4, <1>a, QuietPlace DEF ReportLost, Resume, TypeOK
    <2>5. CASE ChildExits(c) \/ ChildCrashes(c)
      BY <2>5, <1>a, QuietPlace DEF ChildExits, ChildCrashes, Gone, TypeOK
    <2>6. QED
      BY <1>1, <1>2, <2>1, <2>2, <2>3, <2>4, <2>5
         DEF ChildStep, ChildFault, Loaded, RegisterRefused, StartPoll, PollUnknown,
             ChildStops, SaveFails, RegisterLost, PollBreaks
  <1>3. ASSUME NEW x \in Sender, Unregister(x) PROVE OnePlace'
    BY <1>3, <1>a, QuietPlace DEF Unregister, Release
  <1>4. ASSUME NEW p \in Poll, Answer(p) PROVE OnePlace'
    <2> DEFINE c == polls[p].child
               r == polls[p].on
    <2>1. r \in Object /\ c \in Child \cup {None}
      BY <1>4 DEF Answer, TypeOK, PollRecord
    <2>2. work' = [work EXCEPT ![r] = {}] /\ UNCHANGED <<runs, doing, call>>
      BY <1>4 DEF Answer
    <2>3. c # None => got' = [got EXCEPT ![c] = work[r]]
      BY <1>4 DEF Answer
    <2>4. c = None => got' = got
      BY <1>4 DEF Answer
    <2> HIDE DEF c, r
    <2>5. \A o \in Object : work'[o] \subseteq work[o] /\ (o = r => work'[o] = {})
      BY <2>1, <2>2 DEF TypeOK
    <2>6. CASE c = None
      BY <1>a, <2>2, <2>4, <2>5, <2>6, QuietPlace
    <2>7. CASE c # None
      <3>1. \A b \in Child : got'[b] = IF b = c THEN work[r] ELSE got[b]
        BY <2>1, <2>3, <2>7 DEF TypeOK
      <3>2. QED
        BY <2>1, <2>2, <2>5, <2>7, <3>1 DEF OnePlace
    <2>8. QED
      BY <2>6, <2>7
  <1>5. ASSUME NEW i \in Call, CallStep(i) PROVE OnePlace'
    <2>1. CASE Invoke(i)
      <3>1. /\ reg \in Object /\ call[i] = "idle"
            /\ call' = [call EXCEPT ![i] = "waiting"]
            /\ work' = [work EXCEPT ![reg] = @ \cup {i}]
            /\ UNCHANGED <<got, doing, runs>>
        BY <2>1 DEF Invoke, TypeOK
      <3>2. \A j \in Call : call'[j] = IF j = i THEN "waiting" ELSE call[j]
        BY <3>1 DEF TypeOK
      <3>3. \A j \in Call, r \in Object :
              j \in work'[r] <=> j \in work[r] \/ (j = i /\ r = reg)
        BY <3>1 DEF TypeOK
      <3>4. QED
        BY <3>1, <3>2, <3>3 DEF OnePlace
    <2>2. CASE InvokeUnknown(i) \/ CallTimesOut(i)
      BY <2>2, <1>a, QuietPlace DEF InvokeUnknown, CallTimesOut, TypeOK
    <2>3. QED
      BY <1>5, <2>1, <2>2 DEF CallStep
  <1>6. CASE ApiRestarts
    BY <1>6, <1>a, QuietPlace DEF ApiRestarts
  <1>7. ASSUME NEW c \in Child, Lifecycle(c) PROVE OnePlace'
    <2>1. CASE KillChild(c)
      BY <2>1, <1>a, QuietPlace DEF KillChild, Gone, TypeOK
    <2>2. QED
      BY <1>1, <1>7, <2>1 DEF Lifecycle, Start, Signal, Collect
  <1>8. CASE AllGone
    BY <1>8, <1>a, QuietPlace DEF AllGone
  <1>9. QED
    BY <1>1, <1>2, <1>3, <1>4, <1>5, <1>6, <1>7, <1>8
       DEF BrokerNext, Next, BrokerStep, Saved, Forget, Touched, UnregisterLost, TouchFails,
           StoreExpires, SetConfig, SendUnregister

\* broker.py work(), runner.py _execute: no invocation runs twice, and a result
\* comes from a run, for any number of children, calls, polls and registrations.
THEOREM AtMostOnce == BrokerSpec => []RunAtMostOnce
  <1>1. Init => OnePlace
    BY BrokerAssumption DEF Init, OnePlace
  <1>2. OnePlace => RunAtMostOnce
    BY DEF OnePlace, RunAtMostOnce
  <1>3. QED
    BY <1>1, <1>2, BrokerTypes, NextPlace, PTL DEF BrokerSpec

-----------------------------------------------------------------------------
(* The supervisor has the only child.                                      *)

\* Only a child that waits for an answer listens, and to one poll.
Listening ==
  \A p \in Poll : polls[p].child # None =>
    /\ cpc[polls[p].child] = "parked"
    /\ \A q \in Poll : polls[q].child = polls[p].child => q = p

\* A step that gives no poll a listener and moves no listener.
LEMMA QuietListening ==
  ASSUME Listening,
         \A p \in Poll : polls'[p].child # None =>
           /\ polls'[p].child = polls[p].child
           /\ cpc[polls[p].child] = "parked" => cpc'[polls[p].child] = "parked"
  PROVE  Listening'
  BY DEF Listening

\* A child that is gone hears no answer; the others' polls stay theirs.
LEMMA UnheardFields ==
  ASSUME TypeOK, NEW c \in Child, NEW p \in Poll, Unheard(c)[p].child # None
  PROVE  Unheard(c)[p].child = polls[p].child /\ polls[p].child # c
  BY DEF TypeOK, PollRecord, Unheard

\* Waking a poll does not change whose it is.
LEMMA WokenFields ==
  ASSUME TypeOK, NEW p \in Poll
  PROVE  Woken[p].child = polls[p].child
  BY DEF TypeOK, PollRecord, Woken

\* Every step keeps answers for children that wait for them.
LEMMA NextListening == TypeOK /\ Listening /\ [BrokerNext]_vars => Listening'
  <1> SUFFICES ASSUME TypeOK, Listening, [BrokerNext]_vars PROVE Listening'
    OBVIOUS
  <1> USE BrokerAssumption
  <1>1. CASE UNCHANGED <<polls, cpc>>
    BY <1>1 DEF Listening
  \* One child moves that does not wait for an answer.
  <1>2. ASSUME NEW c \in Child, cpc[c] # "parked", NEW s, cpc' = [cpc EXCEPT ![c] = s],
               UNCHANGED polls
        PROVE  Listening'
    BY <1>2, QuietListening DEF TypeOK, Listening
  \* Nobody listens for a child that ends or loses its connection.
  <1>3. ASSUME NEW c \in Child, NEW s, cpc' = [cpc EXCEPT ![c] = s], polls' = Unheard(c)
        PROVE  Listening'
    BY <1>3, QuietListening, UnheardFields DEF TypeOK
  <1>4. ASSUME NEW c \in Child, ChildStep(c) \/ ChildFault(c) PROVE Listening'
    <2>1. CASE StartPoll(c)
      <3>1. PICK p \in Poll :
              /\ polls[p] = NoPoll
              /\ polls' = [polls EXCEPT ![p] = [child |-> c, on |-> reg, at |-> "touch"]]
        BY <2>1 DEF StartPoll, Free
      <3>2. cpc[c] = "poll" /\ cpc' = [cpc EXCEPT ![c] = "parked"]
        BY <2>1 DEF StartPoll
      <3>3. \A q \in Poll : polls[q].child # c
        BY <3>2 DEF Listening, TypeOK
      <3>4. \A q \in Poll : polls'[q].child = IF q = p THEN c ELSE polls[q].child
        BY <3>1 DEF TypeOK
      <3>5. \A b \in Child : cpc'[b] = IF b = c THEN "parked" ELSE cpc[b]
        BY <3>2 DEF TypeOK
      <3>6. \A q \in Poll : polls[q].child \in Child \cup {None}
        BY DEF TypeOK, PollRecord
      <3>7. ASSUME NEW q \in Poll, polls'[q].child # None
            PROVE  /\ cpc'[polls'[q].child] = "parked"
                   /\ \A o \in Poll : polls'[o].child = polls'[q].child => o = q
        <4>1. CASE q = p
          BY ONLY <3>3, <3>4, <3>5, <4>1, c \in Child, p \in Poll
        <4>2. CASE q # p
          BY ONLY <3>3, <3>4, <3>5, <3>6, <3>7, <4>2, Listening, c \in Child, p \in Poll
             DEF Listening
        <4>3. QED
          BY <4>1, <4>2
      <3>8. QED
        BY ONLY <3>7 DEF Listening
    <2>2. CASE ChildExits(c) \/ ChildCrashes(c) \/ PollBreaks(c)
      BY <1>3, <2>2 DEF ChildExits, ChildCrashes, Gone, PollBreaks
    <2>3. CASE Report(c) \/ ReportLost(c)
      BY <1>2, <2>3 DEF Report, ReportLost, Resume
    <2>4. CASE Loaded(c) \/ Register(c) \/ RegisterRefused(c) \/ PollUnknown(c) \/ RegisterLost(c)
      BY <1>2, <2>4 DEF Loaded, Register, RegisterRefused, PollUnknown, RegisterLost
    <2>5. CASE Run(c) \/ ChildStops(c)
      BY <1>2, <2>5 DEF Run, ChildStops
    <2>6. CASE SaveFails(c)
      BY <2>6, QuietListening DEF SaveFails, TypeOK
    <2>7. QED
      BY <1>4, <2>1, <2>2, <2>3, <2>4, <2>5, <2>6 DEF ChildStep, ChildFault
  <1>5. ASSUME NEW c \in Child, Saved(c) PROVE Listening'
    BY <1>5, QuietListening DEF Saved, TypeOK
  <1>6. ASSUME NEW p \in Poll, Touched(p) PROVE Listening'
    <2> DEFINE a == IF work[polls[p].on] = {} /\ events[polls[p].on] = <<>>
                    THEN "parked" ELSE "woken"
    <2>1. polls' = [polls EXCEPT ![p].at = a] /\ cpc' = cpc
      BY <1>6 DEF Touched
    <2> HIDE DEF a
    <2>2. \A q \in Poll : polls'[q].child = polls[q].child
      BY <2>1 DEF TypeOK, PollRecord
    <2>3. QED
      BY <2>1, <2>2, QuietListening
  \* The poll ends and its listener, who has no other, moves.
  <1>7. ASSUME NEW p \in Poll, polls' = [polls EXCEPT ![p] = NoPoll],
               \A c \in Child : c # polls[p].child => cpc'[c] = cpc[c]
        PROVE  Listening'
    <2>1. \A q \in Poll : polls'[q].child # None =>
            q # p /\ polls'[q].child = polls[q].child /\ polls[q].child \in Child
      BY <1>7 DEF TypeOK, PollRecord, NoPoll
    <2>2. \A q \in Poll : polls'[q].child # None => polls[q].child # polls[p].child
      BY <2>1 DEF Listening
    <2>3. QED
      BY <1>7, <2>1, <2>2, QuietListening
  <1>8. ASSUME NEW p \in Poll, Answer(p) PROVE Listening'
    BY <1>7, <1>8 DEF Answer, TypeOK
  <1>9. ASSUME NEW p \in Poll, TouchFails(p) PROVE Listening'
    BY <1>7, <1>9 DEF TouchFails
  <1>10. CASE ApiRestarts
    BY <1>10, QuietListening DEF ApiRestarts, NoPoll
  <1>11. CASE (\E i \in Call : Invoke(i)) \/ SetConfig
    BY <1>11, WokenFields, QuietListening DEF Invoke, SetConfig
  <1>12. ASSUME NEW c \in Child, Lifecycle(c) PROVE Listening'
    <2>1. CASE KillChild(c)
      BY <1>3, <2>1 DEF KillChild, Gone
    <2>2. CASE Signal(c)
      BY <1>1, <2>2 DEF Signal
    <2>3. QED
      BY <1>2, <1>12, <2>1, <2>2 DEF Lifecycle, Start, Collect
  <1>13. CASE AllGone
    BY <1>13, QuietListening DEF AllGone, TypeOK, PollRecord
  <1>14. QED
    BY <1>1, <1>4, <1>5, <1>6, <1>8, <1>9, <1>10, <1>11, <1>12, <1>13
       DEF BrokerNext, Next, BrokerStep, CallStep, Unregister, Forget, UnregisterLost,
           InvokeUnknown, CallTimesOut, StoreExpires, SendUnregister

\* Nothing but a spawn brings a child to life.
LEMMA NobodyRises ==
  ASSUME TypeOK, Listening, Next, NEW b \in Child, Alive(b)'
  PROVE  Alive(b)
  <1> USE BrokerAssumption DEF Alive, TypeOK
  <1>1. ASSUME NEW c \in Child, ChildStep(c) PROVE Alive(b)
    BY <1>1 DEF ChildStep, Loaded, Register, RegisterRefused, StartPoll, PollUnknown, Run, Report,
                Resume, ChildStops, ChildExits, Gone
  <1>2. ASSUME NEW c \in Child, ChildFault(c) PROVE Alive(b)
    BY <1>2 DEF ChildFault, SaveFails, RegisterLost, PollBreaks, ReportLost, Resume, ChildCrashes,
                Gone
  <1>3. ASSUME NEW c \in Child, Saved(c) PROVE Alive(b)
    BY <1>3 DEF Saved
  <1>4. ASSUME NEW p \in Poll, Answer(p) \/ TouchFails(p) PROVE Alive(b)
    <2>1. CASE polls[p].child = b
      <3>1. b # None
        OBVIOUS
      <3>2. QED
        BY ONLY <2>1, <3>1, Listening DEF Listening, Alive
    <2>2. CASE polls[p].child # b
      <3>1. cpc'[b] = cpc[b]
        BY <1>4, <2>2 DEF Answer, TouchFails
      <3>2. QED
        BY <3>1
    <2>3. QED
      BY <2>1, <2>2
  <1>5. CASE ApiRestarts
    BY <1>5 DEF ApiRestarts
  <1>6. CASE UNCHANGED cpc
    BY <1>6
  <1>7. QED
    BY <1>1, <1>2, <1>3, <1>4, <1>5, <1>6
       DEF Next, BrokerStep, CallStep, Unregister, Forget, Touched, UnregisterLost, Invoke,
           InvokeUnknown, CallTimesOut, StoreExpires, SetConfig

-----------------------------------------------------------------------------
(* A child's configuration never goes back.                                *)

\* The configurations in a queue.
Configs(e) == {e[j] : j \in 1..Len(e)}

\* A child that may be given the queue of the registered object by its next poll.
Fetching == {"saving", "poll", "parked", "run", "report"}

\* Nothing is newer than the file.  What waits for a child, on the registered
\* object or on the one its poll looked up, is not older than what it works with;
\* what an object replaced still holds is not newer than what the registered holds.
ConfOrder ==
  /\ \A r \in Object : \A k \in Configs(events[r]) : k <= config
  /\ \A c \in Child : conf[c] <= config
  /\ \A c \in Child, r \in Object : r = reg /\ cpc[c] \in Fetching =>
       \A k \in Configs(events[r]) : conf[c] <= k
  /\ \A p \in Poll, c \in Child, r \in Object : polls[p].child = c /\ polls[p].on = r =>
       \A k \in Configs(events[r]) : conf[c] <= k
  /\ \A q \in Object, r \in Object : r = reg /\ q # r =>
       \A k \in Configs(events[q]), m \in Configs(events[r]) : k <= m

\* What a queue holds when it is emptied, grows or is answered.
LEMMA ConfigsEmpty == Configs(<<>>) = {}
  BY EmptySeq DEF Configs

\* A saved configuration joins the queue of its object.
LEMMA ConfigsAppend ==
  ASSUME NEW e \in Seq(0..MaxConfig), NEW v \in 0..MaxConfig
  PROVE  Configs(Append(e, v)) = Configs(e) \cup {v}
  <1>1. /\ Len(Append(e, v)) = Len(e) + 1 /\ Len(e) \in Nat
        /\ \A j \in 1..Len(e) : Append(e, v)[j] = e[j]
        /\ Append(e, v)[Len(e) + 1] = v
    BY AppendProperties, LenProperties
  <1>2. 1..Len(e) + 1 = (1..Len(e)) \cup {Len(e) + 1}
    BY <1>1
  <1>3. QED
    BY ONLY <1>1, <1>2 DEF Configs

\* A queue holds configurations, and the one it is answered with is among them.
LEMMA ConfigsLast ==
  ASSUME NEW e \in Seq(0..MaxConfig)
  PROVE  /\ Configs(e) \subseteq 0..MaxConfig
         /\ e # <<>> => e[Len(e)] \in Configs(e)
  <1>1. \A j \in 1..Len(e) : e[j] \in 0..MaxConfig
    BY ElementOfSeq
  <1>2. e # <<>> => Len(e) \in 1..Len(e)
    BY EmptySeq
  <1>3. QED
    BY <1>1, <1>2 DEF Configs

\* A step that queues nothing, gives no child a newer configuration and no poll a
\* listener; only an object with an empty queue gets registered or more children.
LEMMA QuietOrder ==
  ASSUME TypeOK, ConfOrder, config' = config,
         \A r \in Object : Configs(events'[r]) \subseteq Configs(events[r]),
         \A c \in Child : conf'[c] \in {0, conf[c]},
         \/ reg' = reg /\ \A c \in Child : cpc'[c] \in Fetching => cpc[c] \in Fetching
         \/ reg' = None
         \/ \A r \in Object : r = reg' => Configs(events'[r]) = {},
         \A p \in Poll : polls'[p].child # None =>
           polls'[p].child = polls[p].child /\ polls'[p].on = polls[p].on
  PROVE  ConfOrder'
  <1> USE BrokerAssumption
  <1>1. \A r \in Object : Configs(events[r]) \subseteq 0..MaxConfig
    BY ConfigsLast DEF TypeOK
  <1>2. \A c \in Child, k \in 0..MaxConfig : conf[c] <= k => conf'[c] <= k
    <2> SUFFICES ASSUME NEW c \in Child, NEW k \in 0..MaxConfig, conf[c] <= k
                 PROVE  conf'[c] <= k
      OBVIOUS
    <2>1. conf'[c] = 0 \/ conf'[c] = conf[c]
      OBVIOUS
    <2>2. QED
      BY ONLY <2>1, conf[c] <= k, k \in 0..MaxConfig, BrokerAssumption
  <1>3. config \in 0..MaxConfig
    BY DEF TypeOK
  <1>4. (\A r \in Object : \A k \in Configs(events[r]) : k <= config)'
    BY DEF ConfOrder
  <1>5. (\A c \in Child : conf[c] <= config)'
    BY <1>2, <1>3 DEF ConfOrder
  <1>6. (\A c \in Child, r \in Object : r = reg /\ cpc[c] \in Fetching =>
           \A k \in Configs(events[r]) : conf[c] <= k)'
    BY <1>1, <1>2 DEF ConfOrder
  <1>7. (\A p \in Poll, c \in Child, r \in Object : polls[p].child = c /\ polls[p].on = r =>
           \A k \in Configs(events[r]) : conf[c] <= k)'
    BY <1>1, <1>2 DEF ConfOrder
  <1>8. (\A q \in Object, r \in Object : r = reg /\ q # r =>
           \A k \in Configs(events[q]), m \in Configs(events[r]) : k <= m)'
    BY DEF ConfOrder
  <1>9. QED
    BY <1>4, <1>5, <1>6, <1>7, <1>8 DEF ConfOrder

\* An object that nothing refers to is registered with an empty queue.
LEMMA FreshIsEmpty ==
  ASSUME TypeOK, NewObject
  PROVE  /\ \A r \in Object : r = reg' => Configs(events'[r]) = {}
         /\ \A r \in Object : Configs(events'[r]) \subseteq Configs(events[r])
  BY ConfigsEmpty DEF NewObject, Release, Referenced, TypeOK

\* An answered poll hands over its object's queue.
LEMMA AnswerOrder ==
  ASSUME TypeOK, Listening, ConfOrder, NEW p \in Poll, Answer(p)
  PROVE  /\ ConfOrder'
         /\ \A b \in Child : conf'[b] >= conf[b]
  <1> USE BrokerAssumption
  <1> DEFINE c == polls[p].child
             r == polls[p].on
             e == events[r]
  <1>1. r \in Object /\ c \in Child \cup {None} /\ e \in Seq(0..MaxConfig)
    BY DEF Answer, TypeOK, PollRecord
  <1>2. /\ events' = [events EXCEPT ![r] = <<>>]
        /\ polls' = [polls EXCEPT ![p] = NoPoll]
        /\ UNCHANGED <<config, reg>>
    BY DEF Answer
  <1>3. IF c = None THEN UNCHANGED <<cpc, conf>>
        ELSE /\ conf' = [conf EXCEPT ![c] = IF e = <<>> THEN @ ELSE e[Len(e)]]
             /\ cpc' = [cpc EXCEPT ![c] = IF work[r] = {} THEN "poll" ELSE "run"]
    BY DEF Answer
  <1>4. c # None => cpc[c] = "parked" /\ \A q \in Poll : polls[q].child = c => q = p
    BY DEF Listening
  <1>5. \A o \in Object : Configs(events'[o]) = IF o = r THEN {} ELSE Configs(events[o])
    BY <1>1, <1>2, ConfigsEmpty DEF TypeOK
  <1>6. /\ Configs(e) \subseteq 0..MaxConfig
        /\ e # <<>> => e[Len(e)] \in Configs(e)
    BY <1>1, ConfigsLast
  <1>7. \A q \in Poll : polls'[q].child # None =>
          q # p /\ polls'[q].child = polls[q].child /\ polls'[q].on = polls[q].on
    BY <1>2 DEF TypeOK, NoPoll
  <1>8. /\ \A b \in Child : conf[b] \in 0..MaxConfig
        /\ config \in 0..MaxConfig
    BY DEF TypeOK
  <1>9. c # None => \A k \in Configs(e) : conf[c] <= k
    BY <1>1 DEF ConfOrder
  <1>10. \A b \in Child : cpc'[b] \in Fetching => cpc[b] \in Fetching
    BY <1>1, <1>3, <1>4 DEF Fetching, TypeOK
  <1>11. CASE c = None \/ e = <<>>
    <2>1. conf' = conf
      BY <1>1, <1>3, <1>11 DEF TypeOK
    <2>2. QED
      BY <1>2, <1>5, <1>7, <1>8, <1>10, <2>1, QuietOrder
  <1>12. CASE c # None /\ e # <<>>
    <2> DEFINE v == e[Len(e)]
    <2>1. v \in Configs(e) /\ v \in 0..MaxConfig
      BY <1>6, <1>12
    <2>2. \A b \in Child : conf'[b] = IF b = c THEN v ELSE conf[b]
      BY <1>3, <1>12 DEF TypeOK
    <2>3. c \in Child
      BY <1>1, <1>12
    <2> HIDE DEF v, e
    <2>4. v <= config /\ conf[c] <= v
      BY <1>1, <1>9, <1>12, <2>1 DEF ConfOrder, e
    <2>5. r # reg => \A o \in Object : o = reg => \A m \in Configs(events[o]) : v <= m
      BY <1>1, <2>1 DEF ConfOrder, e
    <2> HIDE DEF c, r
    <2>6. (\A o \in Object : \A k \in Configs(events[o]) : k <= config)'
      BY <1>2, <1>5 DEF ConfOrder
    <2>7. (\A b \in Child : conf[b] <= config)'
      BY <1>2, <2>2, <2>4 DEF ConfOrder
    <2>8. (\A b \in Child, o \in Object : o = reg /\ cpc[b] \in Fetching =>
             \A k \in Configs(events[o]) : conf[b] <= k)'
      BY <1>2, <1>5, <1>10, <2>2, <2>5 DEF ConfOrder
    <2>9. \A q \in Poll : polls'[q].child # None => polls[q].child # c
      BY <1>4, <1>7, <1>12 DEF c
    <2>10. (\A q \in Poll, b \in Child, o \in Object : polls[q].child = b /\ polls[q].on = o =>
              \A k \in Configs(events[o]) : conf[b] <= k)'
      BY <1>5, <1>7, <2>2, <2>9 DEF ConfOrder
    <2>11. (\A q \in Object, o \in Object : o = reg /\ q # o =>
              \A k \in Configs(events[q]), m \in Configs(events[o]) : k <= m)'
      BY <1>2, <1>5 DEF ConfOrder
    <2>12. \A b \in Child : conf'[b] >= conf[b]
      BY <1>8, <2>2, <2>3, <2>4, <2>1
    <2>13. QED
      BY <2>6, <2>7, <2>8, <2>10, <2>11, <2>12 DEF ConfOrder
  <1>13. QED
    BY <1>11, <1>12

\* The event of a saved configuration is the newest of all.
LEMMA SetConfigOrder ==
  ASSUME TypeOK, ConfOrder, SetConfig
  PROVE  ConfOrder'
  <1> USE BrokerAssumption
  <1>1. /\ config' = config + 1 /\ config \in 0..MaxConfig /\ config' \in 0..MaxConfig
        /\ UNCHANGED <<reg, conf, cpc>>
    BY DEF SetConfig, TypeOK
  <1>2. \A p \in Poll : polls'[p].child = polls[p].child /\ polls'[p].on = polls[p].on
    <2>1. polls' = polls \/ polls' = Woken
      BY DEF SetConfig
    <2>2. \A p \in Poll : Woken[p].child = polls[p].child /\ Woken[p].on = polls[p].on
      BY DEF Woken, TypeOK, PollRecord
    <2>3. QED
      BY <2>1, <2>2
  <1>3. \A r \in Object : Configs(events'[r]) =
          IF r = reg THEN Configs(events[r]) \cup {config'} ELSE Configs(events[r])
    <2>1. CASE reg = None
      BY <2>1 DEF SetConfig
    <2>2. CASE reg # None
      <3>1. reg \in Object /\ events' = [events EXCEPT ![reg] = Append(@, config')]
        BY <2>2 DEF SetConfig, TypeOK
      <3>2. QED
        BY <1>1, <3>1, ConfigsAppend DEF TypeOK
    <2>3. QED
      BY <2>1, <2>2
  <1>4. \A r \in Object : Configs(events[r]) \subseteq 0..MaxConfig
    BY ConfigsLast DEF TypeOK
  <1>5. \A c \in Child : conf[c] \in 0..MaxConfig
    BY DEF TypeOK
  <1>a. \A k \in 0..MaxConfig : k <= config => k <= config'
    BY <1>1
  <1>6. (\A r \in Object : \A k \in Configs(events[r]) : k <= config)'
    <2> SUFFICES ASSUME NEW r \in Object, NEW k \in Configs(events'[r]) PROVE k <= config'
      OBVIOUS
    <2>1. CASE k = config'
      BY <1>1, <2>1
    <2>2. CASE k \in Configs(events[r])
      BY <1>4, <1>a, <2>2 DEF ConfOrder
    <2>3. QED
      BY <1>3, <2>1, <2>2
  <1>7. (\A c \in Child : conf[c] <= config)'
    BY <1>1, <1>5 DEF ConfOrder
  <1>8. (\A c \in Child, r \in Object : r = reg /\ cpc[c] \in Fetching =>
           \A k \in Configs(events[r]) : conf[c] <= k)'
    BY <1>1, <1>3, <1>7 DEF ConfOrder
  <1>9. (\A p \in Poll, c \in Child, r \in Object : polls[p].child = c /\ polls[p].on = r =>
           \A k \in Configs(events[r]) : conf[c] <= k)'
    <2> SUFFICES ASSUME NEW p \in Poll, NEW c \in Child, NEW r \in Object,
                        polls'[p].child = c, polls'[p].on = r, NEW k \in Configs(events'[r])
                 PROVE  conf'[c] <= k
      OBVIOUS
    <2>1. CASE k = config'
      BY <1>7, <2>1
    <2>2. CASE k \in Configs(events[r])
      BY <1>1, <1>2, <2>2 DEF ConfOrder
    <2>3. QED
      BY <1>3, <2>1, <2>2
  <1>10. (\A q \in Object, r \in Object : r = reg /\ q # r =>
            \A k \in Configs(events[q]), m \in Configs(events[r]) : k <= m)'
    BY <1>1, <1>3, <1>6 DEF ConfOrder
  <1>11. QED
    BY <1>6, <1>7, <1>8, <1>9, <1>10 DEF ConfOrder

\* A step that changes no configuration, no queue, no poll and no registration.
LEMMA SameOrder ==
  ASSUME TypeOK, ConfOrder, UNCHANGED <<config, reg, events, conf, polls>>,
         \A c \in Child : cpc'[c] \in Fetching => cpc[c] \in Fetching
  PROVE  ConfOrder'
  BY QuietOrder

\* A step of a child or the end of one keeps the order, and gives no living child an
\* older configuration.
LEMMA ChildOrder ==
  ASSUME TypeOK, Listening, ConfOrder, NEW c \in Child,
         ChildStep(c) \/ ChildFault(c) \/ Saved(c) \/ Lifecycle(c)
  PROVE  /\ ConfOrder'
         /\ \A b \in Child : Alive(b) /\ cpc'[b] \notin {"none", "exited"} => conf'[b] >= conf[b]
  <1> USE BrokerAssumption
  <1>a. /\ \A b \in Child : conf[b] \in 0..MaxConfig
        /\ cpc \in [Child -> {"none", "load", "register", "saving", "idle", "poll", "parked",
                              "run", "report", "bye", "exited"}]
    BY DEF TypeOK
  <1>b. \A b \in Child : conf[b] >= conf[b]
    BY <1>a
  <1>1. CASE Register(c)
    <2>1. NewObject /\ UNCHANGED <<config, conf, polls>>
      BY <1>1 DEF Register
    <2>2. QED
      BY <1>b, <2>1, FreshIsEmpty, QuietOrder
  <1>2. CASE StartPoll(c)
    <2>1. PICK p \in Poll :
            polls' = [polls EXCEPT ![p] = [child |-> c, on |-> reg, at |-> "touch"]]
      BY <1>2 DEF StartPoll, Free
    <2>2. /\ cpc[c] = "poll" /\ cpc' = [cpc EXCEPT ![c] = "parked"]
          /\ UNCHANGED <<config, reg, events, conf>>
      BY <1>2 DEF StartPoll
    <2>3. \A b \in Child : cpc'[b] \in Fetching => cpc[b] \in Fetching
      BY <1>a, <2>2 DEF Fetching
    <2>4. \A q \in Poll : IF q = p THEN polls'[q].child = c /\ polls'[q].on = reg
                                   ELSE polls'[q] = polls[q]
      BY <2>1 DEF TypeOK
    <2>5. cpc[c] \in Fetching
      BY <2>2 DEF Fetching
    <2>6. (\A q \in Poll, b \in Child, r \in Object : polls[q].child = b /\ polls[q].on = r =>
             \A k \in Configs(events[r]) : conf[b] <= k)'
      <3> SUFFICES ASSUME NEW q \in Poll, NEW b \in Child, NEW r \in Object,
                          polls'[q].child = b, polls'[q].on = r
                   PROVE  \A k \in Configs(events[r]) : conf[b] <= k
        BY <2>2
      <3>1. CASE q = p
        BY <2>4, <2>5, <3>1 DEF ConfOrder
      <3>2. CASE q # p
        BY <2>4, <3>2 DEF ConfOrder
      <3>3. QED
        BY <3>1, <3>2
    <2>7. QED
      BY <1>b, <2>2, <2>3, <2>6 DEF ConfOrder
  <1>3. CASE ChildExits(c) \/ ChildCrashes(c) \/ KillChild(c)
    <2>1. Gone(c)
      BY <1>3 DEF ChildExits, ChildCrashes, KillChild
    <2>2. /\ \A b \in Child : conf'[b] = IF b = c THEN 0 ELSE conf[b]
          /\ \A b \in Child : cpc'[b] = IF b = c THEN "exited" ELSE cpc[b]
          /\ polls' = Unheard(c) /\ UNCHANGED <<config, reg, events>>
      BY <2>1 DEF Gone, TypeOK
    <2>3. \A p \in Poll : polls'[p].child # None =>
            polls'[p].child = polls[p].child /\ polls'[p].on = polls[p].on
      BY <2>2 DEF Unheard, TypeOK, PollRecord
    <2>4. \A b \in Child : cpc'[b] \in Fetching => cpc[b] \in Fetching
      BY <2>2 DEF Fetching
    <2>5. ConfOrder'
      BY <2>2, <2>3, <2>4, QuietOrder
    <2>6. QED
      BY <1>b, <2>2, <2>5
  <1>4. CASE PollBreaks(c)
    <2>1. /\ cpc[c] = "parked" /\ cpc' = [cpc EXCEPT ![c] = "poll"]
          /\ polls' = Unheard(c) /\ UNCHANGED <<config, reg, events, conf>>
      BY <1>4 DEF PollBreaks
    <2>2. \A p \in Poll : polls'[p].child # None =>
            polls'[p].child = polls[p].child /\ polls'[p].on = polls[p].on
      BY <2>1 DEF Unheard, TypeOK, PollRecord
    <2>3. \A b \in Child : cpc'[b] \in Fetching => cpc[b] \in Fetching
      BY <1>a, <2>1 DEF Fetching
    <2>4. QED
      BY <1>b, <2>1, <2>2, <2>3, QuietOrder
  <1>5. ASSUME NEW v \in 0..config, Start(c, v)
        PROVE  /\ ConfOrder'
               /\ \A b \in Child : Alive(b) /\ cpc'[b] \notin {"none", "exited"} =>
                    conf'[b] >= conf[b]
    <2>1. /\ cpc[c] = "none"
          /\ \A b \in Child : cpc'[b] = IF b = c THEN "load" ELSE cpc[b]
          /\ \A b \in Child : conf'[b] = IF b = c THEN v ELSE conf[b]
          /\ UNCHANGED <<config, reg, events, polls>>
      BY <1>5 DEF Start, TypeOK
    <2>2. \A p \in Poll : polls[p].child # c
      <3>1. cpc[c] = "none" /\ c # None
        BY <2>1
      <3>2. QED
        BY ONLY <3>1, Listening DEF Listening
    <2>3. v <= config /\ ~Alive(c)
      BY <2>1 DEF Alive, TypeOK
    <2>4. \A b \in Child : cpc'[b] \in Fetching => cpc[b] \in Fetching /\ b # c
      BY <2>1 DEF Fetching
    <2>5. ConfOrder'
      BY <2>1, <2>2, <2>3, <2>4 DEF ConfOrder
    <2>6. QED
      BY <1>b, <2>1, <2>3, <2>5
  <1>6. CASE \/ Loaded(c) \/ RegisterRefused(c) \/ PollUnknown(c) \/ RegisterLost(c)
             \/ ChildStops(c) \/ Signal(c) \/ Collect(c)
    <2>1. UNCHANGED <<config, reg, events, conf, polls>>
      BY <1>6 DEF Loaded, RegisterRefused, PollUnknown, RegisterLost, ChildStops, Signal, Collect
    <2>2. \A b \in Child : cpc'[b] \in Fetching => cpc[b] \in Fetching
      BY <1>a, <1>6 DEF Fetching, Loaded, RegisterRefused, PollUnknown, RegisterLost, ChildStops,
                   Signal, Collect
    <2>3. QED
      BY <1>b, <2>1, <2>2, SameOrder
  <1>7. CASE Run(c) \/ Report(c) \/ ReportLost(c) \/ Saved(c) \/ SaveFails(c)
    <2>1. UNCHANGED <<config, reg, events, conf, polls>>
      BY <1>7 DEF Run, Report, ReportLost, Resume, Saved, SaveFails
    <2>2. \A b \in Child : cpc'[b] \in Fetching => cpc[b] \in Fetching
      BY <1>a, <1>7 DEF Fetching, Run, Report, ReportLost, Resume, Saved, SaveFails
    <2>3. QED
      BY <1>b, <2>1, <2>2, SameOrder
  <1>8. QED
    BY <1>1, <1>2, <1>3, <1>4, <1>5, <1>6, <1>7 DEF ChildStep, ChildFault, Lifecycle

\* So does every step of the broker.
LEMMA NextOrder ==
  TypeOK /\ Listening /\ ConfOrder /\ [BrokerNext]_vars =>
    /\ ConfOrder'
    /\ \A b \in Child : Alive(b) /\ cpc'[b] \notin {"none", "exited"} => conf'[b] >= conf[b]
  <1> DEFINE Forward == \A b \in Child :
               Alive(b) /\ cpc'[b] \notin {"none", "exited"} => conf'[b] >= conf[b]
  <1> SUFFICES ASSUME TypeOK, Listening, ConfOrder, [BrokerNext]_vars
               PROVE  ConfOrder' /\ Forward
    OBVIOUS
  <1> USE BrokerAssumption
  <1>a. conf' = conf => Forward
    BY DEF TypeOK
  <1>1. CASE UNCHANGED <<config, reg, events, conf, polls, cpc>>
    BY <1>1, <1>a, SameOrder
  <1>2. ASSUME NEW c \in Child, ChildStep(c) \/ ChildFault(c) \/ Saved(c) \/ Lifecycle(c)
        PROVE  ConfOrder' /\ Forward
    BY <1>2, ChildOrder
  <1>3. ASSUME NEW p \in Poll, Answer(p) PROVE ConfOrder' /\ Forward
    BY <1>3, AnswerOrder
  <1>4. CASE SetConfig
    BY <1>4, <1>a, SetConfigOrder DEF SetConfig
  <1>5. ASSUME NEW x \in Sender, Unregister(x) PROVE ConfOrder' /\ Forward
    <2>1. reg' = None /\ Release /\ UNCHANGED <<config, polls, conf>>
      BY <1>5 DEF Unregister
    <2>2. \A r \in Object : Configs(events'[r]) \subseteq Configs(events[r])
      BY <2>1, ConfigsEmpty DEF Release
    <2>3. QED
      BY <1>a, <2>1, <2>2, QuietOrder
  <1>6. CASE ApiRestarts
    <2>1. /\ \A r \in Object : Configs(events'[r]) = {}
          /\ \A p \in Poll : polls'[p].child = None
          /\ UNCHANGED <<config, conf>>
      BY <1>6, ConfigsEmpty DEF ApiRestarts, NoPoll
    <2>2. QED
      BY <1>a, <2>1, QuietOrder
  <1>7. CASE AllGone
    <2>1. /\ \A b \in Child : cpc'[b] = "none" /\ conf'[b] = 0
          /\ \A p \in Poll : polls'[p].child = None
          /\ UNCHANGED <<config, reg, events>>
      BY <1>7 DEF AllGone, TypeOK, PollRecord
    <2>2. ConfOrder'
      BY <2>1, QuietOrder DEF Fetching
    <2>3. QED
      BY <2>1, <2>2
  <1>8. ASSUME NEW p \in Poll, Touched(p) PROVE ConfOrder' /\ Forward
    <2> DEFINE a == IF work[polls[p].on] = {} /\ events[polls[p].on] = <<>>
                    THEN "parked" ELSE "woken"
    <2>1. polls' = [polls EXCEPT ![p].at = a] /\ UNCHANGED <<config, reg, events, conf, cpc>>
      BY <1>8 DEF Touched
    <2> HIDE DEF a
    <2>2. \A q \in Poll : polls'[q].child = polls[q].child /\ polls'[q].on = polls[q].on
      BY <2>1 DEF TypeOK, PollRecord
    <2>3. QED
      BY <1>a, <2>1, <2>2, QuietOrder
  <1>9. ASSUME NEW p \in Poll, TouchFails(p) PROVE ConfOrder' /\ Forward
    <2>1. /\ polls' = [polls EXCEPT ![p] = NoPoll] /\ UNCHANGED <<config, reg, events, conf>>
          /\ \A b \in Child : cpc'[b] = IF b = polls[p].child THEN "poll" ELSE cpc[b]
      BY <1>9 DEF TouchFails
    <2>2. \A q \in Poll : polls'[q].child # None =>
            polls'[q].child = polls[q].child /\ polls'[q].on = polls[q].on
      BY <2>1 DEF TypeOK, NoPoll
    <2>3. \A b \in Child : cpc'[b] \in Fetching => cpc[b] \in Fetching
      BY <2>1 DEF Fetching, Listening
    <2>4. QED
      BY <1>a, <2>1, <2>2, <2>3, QuietOrder
  <1>10. ASSUME NEW i \in Call, Invoke(i) PROVE ConfOrder' /\ Forward
    <2>1. polls' = Woken /\ UNCHANGED <<config, reg, events, conf, cpc>>
      BY <1>10 DEF Invoke
    <2>2. \A q \in Poll : polls'[q].child = polls[q].child /\ polls'[q].on = polls[q].on
      BY <2>1 DEF Woken, TypeOK, PollRecord
    <2>3. QED
      BY <1>a, <2>1, <2>2, QuietOrder
  <1>11. QED
    BY <1>1, <1>2, <1>3, <1>4, <1>5, <1>6, <1>7, <1>8, <1>9, <1>10
       DEF BrokerNext, Next, BrokerStep, CallStep, Forget, UnregisterLost, InvokeUnknown,
           CallTimesOut, StoreExpires, SendUnregister

\* plugin_config, spawn and work: no child that runs is given an older
\* configuration than it has, for any number of children, objects and polls.
THEOREM ConfigMovesForward == BrokerSpec => ConfigNeverGoesBack
  <1> USE BrokerAssumption
  <1>1. Init => Listening /\ ConfOrder
    BY ConfigsEmpty DEF Init, NoPoll, Listening, ConfOrder
  <1>2. BrokerSpec => [](TypeOK /\ Listening /\ ConfOrder)
    BY <1>1, BrokerTypes, NextListening, NextOrder, PTL DEF BrokerSpec
  <1>3. TypeOK /\ Listening /\ ConfOrder /\ [BrokerNext]_vars =>
          [\A c \in Child : Alive(c) /\ cpc'[c] \notin {"none", "exited"} => conf'[c] >= conf[c]]_vars
    BY NextOrder
  <1>4. QED
    BY <1>2, <1>3, PTL DEF BrokerSpec, ConfigNeverGoesBack

-----------------------------------------------------------------------------
(* The supervisor over the broker.                                         *)

\* The circuit is open after crash_limit crashes, and then there is no process.
CircuitOK ==
  /\ circuit <=> crashes >= CrashLimit
  /\ proc # None \/ spc = "spawn" => ~circuit

\* The configuration that reconcile() has read is not newer than the file.
HostInv ==
  /\ HostTypeOK
  /\ Listening
  /\ seen.config <= config
  /\ CircuitOK
  /\ OneChildPerPlugin

\* The configuration in the settings only moves forward.
LEMMA ConfigGrows ==
  ASSUME TypeOK, [BrokerNext]_vars PROVE config' \in 0..MaxConfig /\ config' >= config
  <1>1. CASE SetConfig
    BY <1>1, BrokerAssumption DEF SetConfig, TypeOK
  <1>2. config' = config \/ SetConfig
    <2>1. ASSUME NEW c \in Child, ChildStep(c) \/ ChildFault(c) \/ Lifecycle(c) \/ Saved(c)
          PROVE  config' = config
      BY <2>1 DEF ChildStep, ChildFault, Lifecycle, Loaded, Register, RegisterRefused, StartPoll,
           PollUnknown, Run, Report, Resume, ChildStops, ChildExits, Gone, SaveFails, RegisterLost,
           PollBreaks, ReportLost, ChildCrashes, Start, Signal, KillChild, Collect, Saved
    <2>2. ASSUME NEW p \in Poll, Touched(p) \/ Answer(p) \/ TouchFails(p)
          PROVE  config' = config
      BY <2>2 DEF Touched, Answer, TouchFails
    <2>3. QED
      BY <2>1, <2>2 DEF BrokerNext, Next, BrokerStep, CallStep, Unregister, Forget, UnregisterLost,
         Invoke, InvokeUnknown, CallTimesOut, StoreExpires, ApiRestarts, SendUnregister, AllGone
  <1>3. QED
    BY <1>1, <1>2 DEF TypeOK

\* What the supervisor does is what a child may meet in PluginBroker.
LEMMA HostStep == HostInv /\ [HostNext]_allVars => [BrokerNext]_vars
  <1> SUFFICES ASSUME HostInv, [HostNext]_allVars PROVE [BrokerNext]_vars
    OBVIOUS
  <1>a. spc \in {"stop", "wait", "reap"} => proc \in Child
    BY DEF HostInv, HostTypeOK
  <1>b. seen.config \in 0..config
    BY DEF HostInv, HostTypeOK, Control, TypeOK
  <1>1. CASE Next
    BY <1>1 DEF BrokerNext
  <1>2. CASE Stop \/ Reap
    BY <1>2 DEF Stop, Reap, BrokerNext
  <1>3. CASE Terminate \/ Kill
    BY <1>3, <1>a DEF Terminate, Kill, BrokerNext, Lifecycle
  <1>4. CASE Stopped \/ Reaped
    BY <1>4, <1>a DEF Stopped, Reaped, BrokerNext, Lifecycle
  <1>5. CASE Spawn
    BY <1>5, <1>b DEF Spawn, BrokerNext, Lifecycle
  <1>6. CASE SupervisorRestarts
    BY <1>6 DEF SupervisorRestarts, BrokerNext
  <1>7. CASE Review \/ SpawnFails \/ Operator \/ UNCHANGED allVars
    BY <1>7 DEF Review, SpawnFails, Operator, Enable, Disable, Reload, allVars
  <1>8. QED
    BY <1>1, <1>2, <1>3, <1>4, <1>5, <1>6, <1>7 DEF HostNext, SupervisorStep

\* The supervised system starts in the invariant.
LEMMA HostInitInv == HostInit => HostInv
  <1> SUFFICES ASSUME HostInit PROVE HostInv
    OBVIOUS
  <1>1. TypeOK
    BY InitTypeOK DEF HostInit
  <1>2. control \in Control /\ seen \in Control /\ seen.config <= config
    BY BrokerAssumption, HostAssumption DEF HostInit, Init, control, Control, Unread
  <1>3. sgen \in 0..MaxGeneration /\ crashes \in 0..CrashLimit
    BY HostAssumption DEF HostInit
  <1>4. Listening
    BY DEF HostInit, Init, NoPoll, Listening
  <1>5. OneChildPerPlugin
    BY DEF HostInit, Init, OneChildPerPlugin, Alive
  <1>6. CircuitOK
    BY HostAssumption DEF HostInit, CircuitOK
  <1>7. QED
    BY <1>1, <1>2, <1>3, <1>4, <1>5, <1>6 DEF HostInit, HostInv, HostTypeOK

\* The supervisor loses no child that is alive.
LEMMA KeepsTheChild ==
  ASSUME HostInv, [HostNext]_allVars
  PROVE  OneChildPerPlugin'
  <1> SUFFICES ASSUME NEW b \in Child, Alive(b)' PROVE proc' = b
    BY DEF OneChildPerPlugin
  <1>a. Alive(b) => proc = b
    BY DEF HostInv, OneChildPerPlugin
  <1>b. cpc \in [Child -> {"none", "load", "register", "saving", "idle", "poll", "parked",
                           "run", "report", "bye", "exited"}]
    BY DEF HostInv, HostTypeOK, TypeOK
  <1>c. spc \in {"stop", "wait", "reap"} => proc \in Child
    BY DEF HostInv, HostTypeOK
  <1>1. CASE Next /\ UNCHANGED hostVars
    BY <1>1, <1>a, NobodyRises DEF HostInv, HostTypeOK, hostVars
  <1>2. CASE Stop \/ Reap
    BY <1>2, <1>a DEF Stop, Reap, SendUnregister, Alive
  <1>3. CASE Terminate \/ Kill
    BY <1>3, <1>a, <1>b, <1>c DEF Terminate, Kill, KillChild, Signal, Gone, Alive, hostVars
  <1>4. CASE Stopped \/ Reaped
    BY <1>4, <1>a, <1>b, <1>c DEF Stopped, Reaped, Collect, Alive
  <1>5. CASE Spawn
    <2>1. proc = None
      BY <1>5 DEF Spawn, HostInv, HostTypeOK
    <2>2. QED
      BY <1>5, <2>1, <1>a, <1>b, BrokerAssumption DEF Spawn, Start, Alive
  <1>6. CASE SupervisorRestarts
    BY <1>6 DEF SupervisorRestarts, AllGone, Alive
  <1>7. CASE Review \/ SpawnFails \/ Operator \/ UNCHANGED allVars
    BY <1>7, <1>a DEF Review, SpawnFails, Operator, Enable, Disable, Reload, allVars, hostVars, Alive
  <1>8. QED
    BY <1>1, <1>2, <1>3, <1>4, <1>5, <1>6, <1>7 DEF HostNext, SupervisorStep

\* A child that has ended may be one crash more; the circuit opens at crash_limit.
LEMMA CrashCounted ==
  ASSUME CrashLimit \in Nat, crashes \in 0..CrashLimit, crashes < CrashLimit,
         NEW n \in 1..crashes + 1
  PROVE  n \in 0..CrashLimit
  OBVIOUS

\* The supervisor's own variables.
LEMMA SupervisorTypes ==
  ASSUME HostInv, [HostNext]_allVars
  PROVE  /\ (enabled \in BOOLEAN)' /\ (generation \in 0..MaxGeneration)'
         /\ (seen \in Control)' /\ (seen.config <= config)'
         /\ (spc \in {"rest", "stop", "wait", "reap", "spawn"})'
         /\ (proc \in Child \cup {None})' /\ (sgen \in 0..MaxGeneration)'
         /\ (crashes \in 0..CrashLimit)' /\ (circuit \in BOOLEAN)'
         /\ (spc \in {"stop", "wait", "reap"} => proc # None)'
         /\ (spc = "spawn" => proc = None)'
         /\ CircuitOK'
  <1> DEFINE Goal == /\ enabled \in BOOLEAN /\ generation \in 0..MaxGeneration
                     /\ seen \in Control /\ seen.config <= config
                     /\ spc \in {"rest", "stop", "wait", "reap", "spawn"}
                     /\ proc \in Child \cup {None} /\ sgen \in 0..MaxGeneration
                     /\ crashes \in 0..CrashLimit /\ circuit \in BOOLEAN
                     /\ spc \in {"stop", "wait", "reap"} => proc # None
                     /\ spc = "spawn" => proc = None
                     /\ CircuitOK
  <1>1. Goal /\ config \in 0..MaxConfig /\ control \in Control /\ TypeOK
    BY DEF HostInv, HostTypeOK, control, Control
  <1>2. config' \in 0..MaxConfig /\ config' >= config
    BY HostStep, ConfigGrows, <1>1
  <1>3. /\ control.enabled = enabled /\ control.generation = generation
        /\ control.config = config
    BY DEF control
  <1>4. Unread \in Control /\ Unread.config = 0
    BY BrokerAssumption, HostAssumption DEF Unread, Control
  <1>5. seen.generation \in 0..MaxGeneration /\ seen.config \in 0..MaxConfig /\ seen.enabled \in BOOLEAN
    BY <1>1 DEF Control
  <1>6. ~(0 >= CrashLimit) /\ 0 \in 0..CrashLimit
    BY HostAssumption
  <1>7. seen' = seen => seen'.config <= config'
    BY <1>1, <1>2, <1>5
  <1>8. seen' = control => seen'.config <= config'
    BY <1>1, <1>2, <1>3
  <1>9. seen' = Unread => seen'.config <= config'
    BY <1>2, <1>4
  <1> HIDE DEF control, Unread, Control
  <1> USE BrokerAssumption, HostAssumption, <1>1, <1>2, <1>3, <1>4, <1>5, <1>6, <1>7, <1>8, <1>9
  <1>10. CASE UNCHANGED hostVars
    BY <1>10 DEF hostVars, fileVars, CircuitOK
  <1>11. CASE Operator
    <2>1. (enabled \in BOOLEAN)'
      BY <1>11 DEF Operator, Enable, Disable, Reload
    <2>2. (generation \in 0..MaxGeneration)'
      BY <1>11 DEF Operator, Enable, Disable, Reload
    <2>3. UNCHANGED <<seen, spc, proc, sgen, crashes, circuit>>
      BY <1>11 DEF Operator, Enable, Disable, Reload
    <2>4. QED
      BY <2>1, <2>2, <2>3 DEF CircuitOK
  <1>12. CASE Stop
    BY <1>12 DEF Stop, fileVars, CircuitOK
  <1>13. CASE Terminate
    BY <1>13 DEF Terminate, fileVars, CircuitOK
  <1>14. CASE Stopped
    <2>1. ~circuit /\ proc' = None /\ UNCHANGED <<enabled, generation>>
      BY <1>14 DEF Stopped, fileVars, CircuitOK
    <2>2. /\ \/ spc' = "spawn" /\ seen' = seen
             \/ spc' = "rest" /\ seen' = Unread
          /\ \/ sgen' = seen.generation /\ crashes' = 0 /\ circuit' = FALSE
             \/ UNCHANGED <<sgen, crashes, circuit>>
      BY <1>14 DEF Stopped, Reset, Proceed
    <2>3. (circuit \in BOOLEAN)' /\ (circuit' <=> crashes' >= CrashLimit)
      <3>1. CASE sgen' = seen.generation /\ crashes' = 0 /\ circuit' = FALSE
        BY <3>1, <1>6, Zenon
      <3>2. CASE UNCHANGED <<sgen, crashes, circuit>>
        BY <3>2 DEF CircuitOK
      <3>3. QED
        BY <2>2, <3>1, <3>2
    <2>4. spc' = "spawn" => ~circuit'
      BY <2>1, <2>2
    <2>5. CircuitOK'
      BY <2>1, <2>3, <2>4, Zenon DEF CircuitOK
    <2>6. QED
      BY <2>1, <2>2, <2>3, <2>5
  <1>15. CASE Reap
    BY <1>15 DEF Reap, fileVars, CircuitOK
  <1>16. CASE Reaped
    <2>1. crashes < CrashLimit
      BY <1>16 DEF Reaped, CircuitOK
    <2>2. PICK n \in 1..crashes + 1 : crashes' = n /\ circuit' = (n >= CrashLimit)
      BY <1>16 DEF Reaped
    <2>3. spc' = "rest" /\ proc' = None /\ UNCHANGED <<enabled, generation, seen, sgen>>
      BY <1>16 DEF Reaped, fileVars
    <2>4. (crashes \in 0..CrashLimit)'
      BY <2>1, <2>2, CrashCounted
    <2>5. (circuit \in BOOLEAN)' /\ CircuitOK'
      <3>1. circuit' \in BOOLEAN
        BY <2>2
      <3>2. circuit' <=> crashes' >= CrashLimit
        BY <2>2, Zenon
      <3>3. QED
        BY <2>3, <3>1, <3>2, Zenon DEF CircuitOK
    <2>6. QED
      BY <2>3, <2>4, <2>5
  <1>17. CASE Review
    <2>1. proc = None /\ proc' = None /\ UNCHANGED <<enabled, generation>>
      BY <1>17 DEF Review, fileVars
    <2>2. /\ \/ spc' = "spawn" /\ seen' = control /\ ~circuit'
             \/ spc' = "rest" /\ seen' = Unread
          /\ \/ sgen' = generation /\ crashes' = 0 /\ circuit' = FALSE
             \/ UNCHANGED <<sgen, crashes, circuit>>
      BY <1>17 DEF Review, Reset, Proceed
    <2>3. (circuit \in BOOLEAN)' /\ (circuit' <=> crashes' >= CrashLimit)
      <3>1. CASE sgen' = generation /\ crashes' = 0 /\ circuit' = FALSE
        BY <3>1, <1>6, Zenon
      <3>2. CASE UNCHANGED <<sgen, crashes, circuit>>
        BY <3>2 DEF CircuitOK
      <3>3. QED
        BY <2>2, <3>1, <3>2
    <2>4. spc' = "spawn" => ~circuit'
      BY <2>1, <2>2
    <2>5. CircuitOK'
      BY <2>1, <2>3, <2>4, Zenon DEF CircuitOK
    <2>6. QED
      BY <2>1, <2>2, <2>3, <2>5
  <1>18. CASE Spawn
    BY <1>18 DEF Spawn, fileVars, Proceed, CircuitOK
  <1>19. CASE SpawnFails
    BY <1>19 DEF SpawnFails, fileVars, Proceed, CircuitOK
  <1>20. CASE SupervisorRestarts
    <2>1. /\ spc' = "rest" /\ seen' = Unread /\ proc' = None
          /\ sgen' = generation /\ crashes' = 0 /\ circuit' = FALSE
          /\ UNCHANGED <<enabled, generation>>
      BY <1>20 DEF SupervisorRestarts, fileVars, Proceed
    <2>2. CircuitOK' /\ (circuit \in BOOLEAN)'
      BY <2>1 DEF CircuitOK
    <2>3. QED
      BY <2>1, <2>2
  <1>21. QED
    BY <1>10, <1>11, <1>12, <1>13, <1>14, <1>15, <1>16, <1>17, <1>18, <1>19, <1>20
       DEF HostNext, SupervisorStep, Kill, allVars

\* Every step of the supervisor and of what it supervises keeps the invariant.
LEMMA HostNextInv == HostInv /\ [HostNext]_allVars => HostInv'
  <1> SUFFICES ASSUME HostInv, [HostNext]_allVars PROVE HostInv'
    OBVIOUS
  <1>1. [BrokerNext]_vars
    BY HostStep
  <1>2. TypeOK' /\ Listening'
    BY <1>1, NextTypeOK, NextListening DEF HostInv, HostTypeOK
  <1>3. control' \in Control
    BY <1>2, SupervisorTypes DEF control, Control, TypeOK
  <1>4. QED
    BY <1>2, <1>3, SupervisorTypes, KeepsTheChild DEF HostInv, HostTypeOK

\* The supervisor's inductive invariant holds in every reachable state.
LEMMA HostSafe == HostSpec => []HostInv
  BY HostInitInv, HostNextInv, PTL DEF HostSpec

\* supervisor.py: its record of the process, the circuit breaker and the read
\* control keep their types; a stop always has its process and a spawn has none.
THEOREM HostTypes == HostSpec => []HostTypeOK
  <1>1. HostInv => HostTypeOK
    BY DEF HostInv
  <1>2. QED
    BY <1>1, HostSafe, PTL

\* supervisor.py reconcile and _stop: a child that lives is the supervisor's, for
\* any number of child processes, crashes, reloads and restarts.
THEOREM OneChild == HostSpec => []OneChildPerPlugin
  <1>1. HostInv => OneChildPerPlugin
    BY DEF HostInv
  <1>2. QED
    BY <1>1, HostSafe, PTL

\* The supervised system implements PluginBroker: what is proved of BrokerSpec
\* holds of the children that supervisor.py starts and stops.
THEOREM HostImplementsBroker == HostSpec => BrokerSpec
  <1>1. HostInit => Init
    BY DEF HostInit
  <1>2. QED
    BY <1>1, HostStep, HostSafe, PTL DEF HostSpec, BrokerSpec
=============================================================================
