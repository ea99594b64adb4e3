---------------------------- MODULE PluginBroker ----------------------------
(***************************************************************************)
(* The broker in the API process (src/mybot/plugins/broker.py), the child   *)
(* process of one plugin that serves it (runner.py, child.py) and the       *)
(* registration store (state.py).                                           *)
(*                                                                          *)
(* All children of a plugin have one runner id.  Every registration makes a *)
(* new _RunnerState object; a work() call keeps the object it looked up,    *)
(* also after a later registration has replaced it.  An object that nothing *)
(* refers to is collected: its identity may be used again.                  *)
(* The broker is one event loop: code between two awaits is one step.       *)
(*                                                                          *)
(* Here children are started, signalled and killed at any time, also two at *)
(* once; PluginHost adds the supervisor that decides when.                  *)
(***************************************************************************)
EXTENDS Naturals, Sequences, FiniteSets

CONSTANTS
  Child,      \* identities of child processes, used again after an exit
  Call,       \* invocations of a tool of the plugin
  Object,     \* identities of _RunnerState objects
  Poll,       \* identities of work() calls in the broker
  None,       \* no object, no child, no poll
  MaxConfig,  \* bound: configurations the operator saves
  MaxFaults   \* bound: crashes, restarts, lost answers, store errors

ASSUME BrokerAssumption ==
  /\ None \notin Child \cup Object \cup Poll \cup Call
  /\ Object \subseteq Nat /\ Poll \subseteq Nat
  /\ MaxConfig \in Nat /\ MaxFaults \in Nat

VARIABLES
  config,   \* the configuration in control.json, numbered
  granted,  \* whether register accepts the manifest: a matter of settings
  reg,      \* self._runners: the object of the runner id, or None
  work,     \* the invocations queued on each object (their order is left out)
  events,   \* the configurations queued on each object
  polls,    \* work() calls: the caller that still listens, the object, the place
  store,    \* whether Redis holds the registration
  saving,   \* children whose register request is at `await save`
  unreg,    \* the unregister requests of each side: "none", "sent", "forget"
  call,     \* what the caller of each invocation knows
  runs,     \* how often a child ran each invocation
  cpc,      \* where each child process is
  got,      \* the invocations a child has received and not begun
  doing,    \* the invocation a child has run and not reported, or None
  conf,     \* the configuration a child works with
  term,     \* children that were sent SIGTERM
  faults

settings == <<config, granted>>
objects == <<reg, work, events>>
brokerVars == <<settings, objects, polls, store, saving, unreg, call>>
childVars == <<runs, cpc, got, doing, conf, term>>
vars == <<brokerVars, childVars, faults>>

Sender == {"supervisor", "child"}
Alive(c) == cpc[c] \notin {"none", "exited"}
PollOf(c) == {p \in Poll : polls[p].child = c}
Referenced == {reg} \cup {polls[p].on : p \in Poll}
PollRecord == [child : Child \cup {None}, on : Object \cup {None},
               at : {"none", "touch", "parked", "woken"}]
NoPoll == [child |-> None, on |-> None, at |-> "none"]

TypeOK ==
  /\ config \in 0..MaxConfig
  /\ granted \in BOOLEAN
  /\ reg \in Object \cup {None}
  /\ work \in [Object -> SUBSET Call]
  /\ events \in [Object -> Seq(0..MaxConfig)]
  /\ polls \in [Poll -> PollRecord]
  /\ store \in BOOLEAN
  /\ saving \subseteq Child
  /\ unreg \in [Sender -> {"none", "sent", "forget"}]
  /\ call \in [Call -> {"idle", "waiting", "ok", "error"}]
  /\ runs \in [Call -> Nat]
  /\ cpc \in [Child -> {"none", "load", "register", "saving", "idle", "poll", "parked",
                        "run", "report", "bye", "exited"}]
  /\ got \in [Child -> SUBSET Call]
  /\ doing \in [Child -> Call \cup {None}]
  /\ conf \in [Child -> 0..MaxConfig]
  /\ term \subseteq Child
  /\ faults \in 0..MaxFaults
  /\ \A p \in Poll : polls[p].at = "none" <=> polls[p].on = None

Init ==
  /\ config = 0 /\ granted \in BOOLEAN
  /\ reg = None
  /\ work = [r \in Object |-> {}] /\ events = [r \in Object |-> <<>>]
  /\ polls = [p \in Poll |-> NoPoll]
  /\ store = FALSE /\ saving = {} /\ unreg = [x \in Sender |-> "none"]
  /\ call = [i \in Call |-> "idle"] /\ runs = [i \in Call |-> 0]
  /\ cpc = [c \in Child |-> "none"] /\ got = [c \in Child |-> {}]
  /\ doing = [c \in Child |-> None]
  /\ conf = [c \in Child |-> 0] /\ term = {}
  /\ faults = 0

Fault == faults < MaxFaults /\ faults' = faults + 1

-----------------------------------------------------------------------------
(* Registration.                                                           *)

\* The first that is free: which one makes no difference.
Free(r, S) == r \in S /\ \A q \in S : r <= q

\* The registered object is given up: if no poll has it, it is collected.
Release ==
  LET kept == {polls[p].on : p \in Poll} IN
  /\ work' = [r \in Object |-> IF r \in kept THEN work[r] ELSE {}]
  /\ events' = [r \in Object |-> IF r \in kept THEN events[r] ELSE <<>>]

\* _runners[runner_id] = _RunnerState(...): a new object with empty queues.
NewObject ==
  /\ \E r \in Object \ Referenced : Free(r, Object \ Referenced) /\ reg' = r
  /\ Release

\* load_plugin_entrypoint and the first update_config.
Loaded(c) ==
  /\ cpc[c] = "load"
  /\ cpc' = [cpc EXCEPT ![c] = "register"]
  /\ UNCHANGED <<brokerVars, runs, got, doing, conf, term, faults>>

\* POST /register: register, then persist up to `await save`.
Register(c) ==
  /\ cpc[c] = "register" /\ c \notin term /\ granted
  /\ NewObject
  /\ saving' = saving \cup {c}
  /\ cpc' = [cpc EXCEPT ![c] = "saving"]
  /\ UNCHANGED <<settings, polls, store, unreg, call, runs, got, doing, conf, term, faults>>

\* register raises 403, 409 or 422; the child idles until it is stopped.
RegisterRefused(c) ==
  /\ cpc[c] = "register" /\ c \notin term /\ ~granted
  /\ cpc' = [cpc EXCEPT ![c] = "idle"]
  /\ UNCHANGED <<brokerVars, runs, got, doing, conf, term, faults>>

\* save returns and the child, if it still waits, is answered 200.
Saved(c) ==
  /\ c \in saving
  /\ saving' = saving \ {c}
  /\ store' = TRUE
  /\ cpc' = [cpc EXCEPT ![c] = IF @ = "saving" THEN "poll" ELSE @]
  /\ UNCHANGED <<settings, objects, polls, unreg, call, runs, got, doing, conf, term, faults>>

\* save raises: 500, which the child takes for a refusal.
SaveFails(c) ==
  /\ c \in saving /\ Fault
  /\ saving' = saving \ {c}
  /\ cpc' = [cpc EXCEPT ![c] = IF @ = "saving" THEN "idle" ELSE @]
  /\ UNCHANGED <<settings, objects, polls, store, unreg, call, runs, got, doing, conf, term>>

\* The answer is lost or late; _register_with_retry tries again.
RegisterLost(c) ==
  /\ cpc[c] = "saving" /\ Fault
  /\ cpc' = [cpc EXCEPT ![c] = "register"]
  /\ UNCHANGED <<brokerVars, runs, got, doing, conf, term>>

\* POST /unregister: the object goes, and the callers queued on it fail.
Unregister(x) ==
  /\ unreg[x] = "sent"
  /\ unreg' = [unreg EXCEPT ![x] = "forget"]
  /\ reg' = None
  /\ call' = [i \in Call |-> IF reg # None /\ i \in work[reg] /\ call[i] = "waiting"
                             THEN "error" ELSE call[i]]
  /\ Release
  /\ UNCHANGED <<settings, polls, store, saving, childVars, faults>>

\* ... and then `await forget`.
Forget(x) ==
  /\ unreg[x] = "forget"
  /\ unreg' = [unreg EXCEPT ![x] = "none"]
  /\ store' = FALSE
  /\ UNCHANGED <<settings, objects, polls, saving, call, childVars, faults>>

\* The request never arrives, or Redis raises in forget.
UnregisterLost(x) ==
  /\ unreg[x] # "none" /\ Fault
  /\ unreg' = [unreg EXCEPT ![x] = "none"]
  /\ UNCHANGED <<settings, objects, polls, store, saving, call, childVars>>

\* plugin_registration_ttl_seconds pass without a touch.
StoreExpires ==
  /\ store
  /\ store' = FALSE
  /\ UNCHANGED <<settings, objects, polls, saving, unreg, call, childVars, faults>>

-----------------------------------------------------------------------------
(* Invocations, from the agent worker's side.                              *)

\* wakeup.set() of the current object.
Woken == [p \in Poll |-> IF polls[p].on = reg /\ polls[p].at = "parked"
                         THEN [polls[p] EXCEPT !.at = "woken"] ELSE polls[p]]

\* Mutant: no wake-up.
InvokeSilently(i) ==
  /\ call[i] = "idle" /\ reg # None
  /\ call' = [call EXCEPT ![i] = "waiting"]
  /\ work' = [work EXCEPT ![reg] = @ \cup {i}]
  /\ UNCHANGED <<settings, reg, events, polls, store, saving, unreg, childVars, faults>>

Invoke(i) ==
  /\ call[i] = "idle" /\ reg # None
  /\ call' = [call EXCEPT ![i] = "waiting"]
  /\ work' = [work EXCEPT ![reg] = @ \cup {i}]
  /\ polls' = Woken
  /\ UNCHANGED <<settings, reg, events, store, saving, unreg, childVars, faults>>

\* 404: no tool of that name.
InvokeUnknown(i) ==
  /\ call[i] = "idle" /\ reg = None
  /\ call' = [call EXCEPT ![i] = "error"]
  /\ UNCHANGED <<settings, objects, polls, store, saving, unreg, childVars, faults>>

\* invoke_timeout_seconds pass; the invocation stays where it is.
CallTimesOut(i) ==
  /\ call[i] = "waiting"
  /\ call' = [call EXCEPT ![i] = "error"]
  /\ UNCHANGED <<settings, objects, polls, store, saving, unreg, childVars, faults>>

\* plugin_config: set_config writes the file, and post_plugin_event queues the
\* event on the registered object, or nowhere; no await between them.
SetConfig ==
  /\ config < MaxConfig
  /\ config' = config + 1
  /\ IF reg = None THEN UNCHANGED <<events, polls>>
     ELSE /\ events' = [events EXCEPT ![reg] = Append(@, config + 1)]
          /\ polls' = Woken
  /\ UNCHANGED <<granted, reg, work, store, saving, unreg, call, childVars, faults>>

-----------------------------------------------------------------------------
(* GET /work.                                                              *)

\* A registered child polls; the handler waits for touch first.
StartPoll(c) ==
  /\ cpc[c] = "poll" /\ c \notin term /\ reg # None
  /\ \E p \in Poll :
       /\ Free(p, {q \in Poll : polls[q] = NoPoll})
       /\ polls' = [polls EXCEPT ![p] = [child |-> c, on |-> reg, at |-> "touch"]]
  /\ cpc' = [cpc EXCEPT ![c] = "parked"]
  /\ UNCHANGED <<settings, objects, store, saving, unreg, call, runs, got, doing, conf, term, faults>>

\* Mutant: the child takes 404 for a failed poll.
PollUnknownRetries(c) ==
  /\ cpc[c] = "poll" /\ c \notin term /\ reg = None
  /\ UNCHANGED vars

\* 404: the child registers again.
PollUnknown(c) ==
  /\ cpc[c] = "poll" /\ c \notin term /\ reg = None
  /\ cpc' = [cpc EXCEPT ![c] = "register"]
  /\ UNCHANGED <<brokerVars, runs, got, doing, conf, term, faults>>

\* touch is done: wait unless something is queued.
Touched(p) ==
  /\ polls[p].at = "touch"
  /\ LET r == polls[p].on IN
     polls' = [polls EXCEPT ![p].at =
                 IF work[r] = {} /\ events[r] = <<>> THEN "parked" ELSE "woken"]
  /\ UNCHANGED <<settings, objects, store, saving, unreg, call, childVars, faults>>

\* Mutant: an answered poll leaves the invocations queued.
AnswerKeeps(p) ==
  LET c == polls[p].child
      r == polls[p].on
  IN
  /\ polls[p].at \in {"parked", "woken"}
  /\ events' = [events EXCEPT ![r] = <<>>]
  /\ polls' = [polls EXCEPT ![p] = NoPoll]
  /\ IF c = None THEN UNCHANGED <<cpc, got, conf>>
     ELSE /\ got' = [got EXCEPT ![c] = work[r]]
          /\ conf' = [conf EXCEPT ![c] = IF events[r] = <<>> THEN @ ELSE events[r][Len(events[r])]]
          /\ cpc' = [cpc EXCEPT ![c] = IF work[r] = {} THEN "poll" ELSE "run"]
  /\ UNCHANGED <<settings, reg, work, store, saving, unreg, call, runs, doing, term, faults>>

\* Mutant: an answer takes the newest configuration off the queue, not all.
AnswerPops(p) ==
  LET c == polls[p].child
      r == polls[p].on
  IN
  /\ polls[p].at \in {"parked", "woken"}
  /\ work' = [work EXCEPT ![r] = {}]
  /\ events' = [events EXCEPT ![r] = IF @ = <<>> THEN @ ELSE SubSeq(@, 1, Len(@) - 1)]
  /\ polls' = [polls EXCEPT ![p] = NoPoll]
  /\ IF c = None THEN UNCHANGED <<cpc, got, conf>>
     ELSE /\ got' = [got EXCEPT ![c] = work[r]]
          /\ conf' = [conf EXCEPT ![c] = IF events[r] = <<>> THEN @ ELSE events[r][Len(events[r])]]
          /\ cpc' = [cpc EXCEPT ![c] = IF work[r] = {} THEN "poll" ELSE "run"]
  /\ UNCHANGED <<settings, reg, store, saving, unreg, call, runs, doing, term, faults>>

\* A poll that was woken, or waited for wait_seconds, empties both queues of its
\* object into the answer.  The child applies the configurations first; an
\* answer nobody listens to is lost with all it holds.
Answer(p) ==
  LET c == polls[p].child
      r == polls[p].on
  IN
  /\ polls[p].at \in {"parked", "woken"}
  /\ work' = [work EXCEPT ![r] = {}]
  /\ events' = [events EXCEPT ![r] = <<>>]
  /\ polls' = [polls EXCEPT ![p] = NoPoll]
  /\ IF c = None THEN UNCHANGED <<cpc, got, conf>>
     ELSE /\ got' = [got EXCEPT ![c] = work[r]]
          /\ conf' = [conf EXCEPT ![c] = IF events[r] = <<>> THEN @ ELSE events[r][Len(events[r])]]
          /\ cpc' = [cpc EXCEPT ![c] = IF work[r] = {} THEN "poll" ELSE "run"]
  /\ UNCHANGED <<settings, reg, store, saving, unreg, call, runs, doing, term, faults>>

\* touch raises: 500, and the child polls again after its backoff.
TouchFails(p) ==
  /\ polls[p].at = "touch" /\ Fault
  /\ polls' = [polls EXCEPT ![p] = NoPoll]
  /\ cpc' = [c \in Child |-> IF c = polls[p].child THEN "poll" ELSE cpc[c]]
  /\ UNCHANGED <<settings, objects, store, saving, unreg, call, runs, got, doing, conf, term>>

\* Nobody listens to the polls of c any more; their handlers go on.
Unheard(c) == [p \in Poll |-> IF polls[p].child = c THEN [polls[p] EXCEPT !.child = None]
                              ELSE polls[p]]

\* The connection of a poll breaks.
PollBreaks(c) ==
  /\ cpc[c] = "parked" /\ Fault
  /\ polls' = Unheard(c)
  /\ cpc' = [cpc EXCEPT ![c] = "poll"]
  /\ UNCHANGED <<settings, objects, store, saving, unreg, call, runs, got, doing, conf, term>>

-----------------------------------------------------------------------------
(* The child at work.                                                      *)

\* _run_tool, whatever comes of it.
Run(c) ==
  /\ cpc[c] = "run"
  /\ \E i \in got[c] :
       /\ runs' = [runs EXCEPT ![i] = @ + 1]
       /\ got' = [got EXCEPT ![c] = @ \ {i}]
       /\ doing' = [doing EXCEPT ![c] = i]
  /\ cpc' = [cpc EXCEPT ![c] = "report"]
  /\ UNCHANGED <<brokerVars, conf, term, faults>>

\* The next of the batch, or the next poll.
Resume(c) ==
  /\ cpc[c] = "report"
  /\ doing' = [doing EXCEPT ![c] = None]
  /\ cpc' = [cpc EXCEPT ![c] = IF got[c] = {} THEN "poll" ELSE "run"]
  /\ UNCHANGED <<settings, objects, polls, store, saving, unreg, runs, got, conf, term>>

\* POST /result: post_result refuses an invocation that nobody waits for.
Report(c) ==
  /\ Resume(c)
  /\ call' = [i \in Call |-> IF i = doing[c] /\ call[i] = "waiting" THEN "ok" ELSE call[i]]
  /\ UNCHANGED faults

ReportLost(c) ==
  /\ Resume(c) /\ Fault
  /\ UNCHANGED call

\* The stop event is looked at before a registration, before a poll and by an
\* idle child; child.py then sends an unregister request of its own.
ChildStops(c) ==
  /\ c \in term /\ cpc[c] \in {"register", "poll", "idle"}
  /\ cpc' = [cpc EXCEPT ![c] = "bye"]
  /\ unreg' = [unreg EXCEPT !["child"] = "sent"]
  /\ UNCHANGED <<settings, objects, polls, store, saving, call, runs, got, doing, conf, term, faults>>

\* The process is gone; requests it has made are still handled.
Gone(c) ==
  /\ cpc' = [cpc EXCEPT ![c] = "exited"]
  /\ got' = [got EXCEPT ![c] = {}]
  /\ doing' = [doing EXCEPT ![c] = None]
  /\ conf' = [conf EXCEPT ![c] = 0]
  /\ polls' = Unheard(c)
  /\ term' = term \ {c}
  /\ UNCHANGED <<settings, objects, store, saving, unreg, call, runs>>

\* The request was answered, or timed out after three seconds.
ChildExits(c) == cpc[c] = "bye" /\ Gone(c) /\ UNCHANGED faults

ChildCrashes(c) == Alive(c) /\ Gone(c) /\ Fault

-----------------------------------------------------------------------------
(* What a supervisor does to children, and to the broker.                  *)

\* spawn: the configuration is part of the environment, and may be an old one.
Start(c, v) ==
  /\ cpc[c] = "none" /\ c \notin saving
  /\ cpc' = [cpc EXCEPT ![c] = "load"]
  /\ conf' = [conf EXCEPT ![c] = v]
  /\ UNCHANGED <<brokerVars, runs, got, doing, term, faults>>

\* process.terminate(), once the handler of run_process is there.
Signal(c) ==
  /\ Alive(c) /\ cpc[c] # "load"
  /\ term' = term \cup {c}
  /\ UNCHANGED <<brokerVars, runs, cpc, got, doing, conf, faults>>

\* process.kill(), or terminate() before that.
KillChild(c) == Alive(c) /\ Gone(c) /\ UNCHANGED faults

\* The exit code has been read.
Collect(c) ==
  /\ cpc[c] = "exited"
  /\ cpc' = [cpc EXCEPT ![c] = "none"]
  /\ UNCHANGED <<brokerVars, runs, got, doing, conf, term, faults>>

\* _unregister: the request is on its way.
SendUnregister ==
  /\ unreg' = [unreg EXCEPT !["supervisor"] = "sent"]
  /\ UNCHANGED <<settings, objects, polls, store, saving, call, childVars, faults>>

\* The container of the children goes down.
AllGone ==
  /\ Fault
  /\ cpc' = [c \in Child |-> "none"]
  /\ got' = [c \in Child |-> {}]
  /\ doing' = [c \in Child |-> None]
  /\ conf' = [c \in Child |-> 0]
  /\ polls' = [p \in Poll |-> [polls[p] EXCEPT !.child = None]]
  /\ term' = {}
  /\ UNCHANGED <<settings, objects, store, saving, unreg, call, runs>>

-----------------------------------------------------------------------------
\* The API process restarts: callers and children lose their connections, and
\* restore registers again what the store holds.
ApiRestarts ==
  /\ Fault
  /\ IF store /\ granted
     THEN \E r \in Object : Free(r, Object) /\ reg' = r
     ELSE reg' = None
  /\ work' = [o \in Object |-> {}]
  /\ events' = [o \in Object |-> <<>>]
  /\ polls' = [p \in Poll |-> NoPoll]
  /\ saving' = {}
  /\ unreg' = [x \in Sender |-> "none"]
  /\ call' = [i \in Call |-> IF call[i] = "waiting" THEN "error" ELSE call[i]]
  /\ cpc' = [c \in Child |-> CASE cpc[c] = "parked" -> "poll"
                               [] cpc[c] = "saving" -> "register"
                               [] OTHER -> cpc[c]]
  /\ UNCHANGED <<settings, store, runs, got, doing, conf, term>>

-----------------------------------------------------------------------------
ChildStep(c) ==
  \/ Loaded(c) \/ Register(c) \/ RegisterRefused(c) \/ StartPoll(c) \/ PollUnknown(c)
  \/ Run(c) \/ Report(c) \/ ChildStops(c) \/ ChildExits(c)

ChildFault(c) ==
  SaveFails(c) \/ RegisterLost(c) \/ PollBreaks(c) \/ ReportLost(c) \/ ChildCrashes(c)

BrokerStep ==
  \/ \E c \in Child : Saved(c)
  \/ \E x \in Sender : Unregister(x) \/ Forget(x)
  \/ \E p \in Poll : Touched(p) \/ Answer(p)

CallStep(i) == Invoke(i) \/ InvokeUnknown(i) \/ CallTimesOut(i)

Next ==
  \/ \E c \in Child : ChildStep(c) \/ ChildFault(c)
  \/ BrokerStep
  \/ \E x \in Sender : UnregisterLost(x)
  \/ \E p \in Poll : TouchFails(p)
  \/ \E i \in Call : CallStep(i)
  \/ StoreExpires \/ ApiRestarts
  \/ SetConfig

Lifecycle(c) ==
  (\E v \in 0..config : Start(c, v)) \/ Signal(c) \/ KillChild(c) \/ Collect(c)

BrokerNext ==
  \/ Next
  \/ \E c \in Child : Lifecycle(c)
  \/ SendUnregister \/ AllGone

BrokerSpec == Init /\ [][BrokerNext]_vars

-----------------------------------------------------------------------------
(* Properties.                                                             *)

\* work, register and _execute: a child runs an invocation at most once, and a
\* caller that has a result has the one of that run, although polls outlive
\* their callers, registrations replace each other and callers give up.
RunAtMostOnce ==
  \A i \in Call : runs[i] <= 1 /\ (call[i] = "ok" => runs[i] = 1)

\* work and invoke: no wake-up is lost: a poll never sleeps on an object that
\* has something queued.
NoSleepOnWork ==
  \A p \in Poll : polls[p].at = "parked" =>
    work[polls[p].on] = {} /\ events[polls[p].on] = <<>>

\* plugin_config, spawn and work: the configuration of a child never goes back
\* to an older one, although it comes with the process or from the queue of a
\* registration, and processes, registrations and the API restart in between.
ConfigNeverGoesBack ==
  [][\A c \in Child :
       Alive(c) /\ cpc'[c] \notin {"none", "exited"} => conf'[c] >= conf[c]]_vars
=============================================================================
