----------------------------- MODULE PluginHost -----------------------------
(***************************************************************************)
(* The supervisor (src/mybot/plugins/supervisor.py) over PluginBroker: it   *)
(* keeps one plugin's child process in line with the control file           *)
(* (control.py), which the operator writes.                                 *)
(*                                                                          *)
(* A changed source is a reload without a click: both are `generation`.     *)
(* A process that was sent SIGKILL does nothing any more, whether or not it *)
(* is reaped within kill_timeout_seconds.                                   *)
(***************************************************************************)
EXTENDS PluginBroker

CONSTANTS
  MaxGeneration, \* bound: reloads
  CrashLimit     \* crash_limit

ASSUME HostAssumption == MaxGeneration \in Nat /\ CrashLimit \in Nat \ {0}

VARIABLES
  enabled, generation, \* the rest of control.json
  seen,     \* the control that reconcile() has read and still uses, or Unread
  spc,      \* where reconcile() is with the plugin
  proc,     \* state.process: a child, or None
  sgen,     \* state.generation
  crashes,  \* len(state.crashes)
  circuit   \* state.circuit_open

fileVars == <<enabled, generation>>
hostVars == <<fileVars, seen, spc, proc, sgen, crashes, circuit>>
allVars == <<vars, hostVars>>

Control == [enabled : BOOLEAN, generation : 0..MaxGeneration, config : 0..MaxConfig]
Unread == [enabled |-> TRUE, generation |-> 0, config |-> 0]
control == [enabled |-> enabled, generation |-> generation, config |-> config]

HostTypeOK ==
  /\ TypeOK
  /\ control \in Control /\ seen \in Control
  /\ spc \in {"rest", "stop", "wait", "reap", "spawn"}
  /\ proc \in Child \cup {None}
  /\ sgen \in 0..MaxGeneration
  /\ crashes \in 0..CrashLimit
  /\ circuit \in BOOLEAN
  /\ spc \in {"stop", "wait", "reap"} => proc # None
  /\ spc = "spawn" => proc = None

HostInit ==
  /\ Init
  /\ enabled = TRUE /\ generation = 0 /\ seen = Unread
  /\ spc = "rest" /\ proc = None
  /\ sgen = 0 /\ crashes = 0 /\ circuit = FALSE

-----------------------------------------------------------------------------
(* The operator: request_action.                                           *)

Enable ==
  /\ ~enabled /\ enabled' = TRUE
  /\ UNCHANGED <<vars, generation, seen, spc, proc, sgen, crashes, circuit>>

Disable ==
  /\ enabled /\ enabled' = FALSE
  /\ UNCHANGED <<vars, generation, seen, spc, proc, sgen, crashes, circuit>>

Reload ==
  /\ generation < MaxGeneration
  /\ enabled' = TRUE
  /\ generation' = generation + 1
  /\ UNCHANGED <<vars, seen, spc, proc, sgen, crashes, circuit>>

-----------------------------------------------------------------------------
(* reconcile, _stop and _unregister.                                       *)

Reloading(k) == k.generation # sgen

\* The round of the plugin goes on with spawn, or ends.
Proceed(k, spawning) ==
  /\ spc' = IF spawning THEN "spawn" ELSE "rest"
  /\ seen' = IF spawning THEN k ELSE Unread

\* A reload starts with a clean record.
Reset(k) ==
  IF Reloading(k) THEN sgen' = k.generation /\ crashes' = 0 /\ circuit' = FALSE
  ELSE UNCHANGED <<sgen, crashes, circuit>>

\* A reload or a disabled plugin: _stop begins with an unregister request.
Stop ==
  /\ spc = "rest" /\ proc # None
  /\ Reloading(control) \/ ~enabled
  /\ SendUnregister
  /\ seen' = control /\ spc' = "stop"
  /\ UNCHANGED <<fileVars, proc, sgen, crashes, circuit>>

\* The request was answered or timed out: SIGTERM, which ends a process that has
\* no handler for it yet.
Terminate ==
  /\ spc = "stop"
  /\ \/ cpc[proc] = "load" /\ KillChild(proc)
     \/ Signal(proc)
     \/ ~Alive(proc) /\ UNCHANGED vars
  /\ spc' = "wait"
  /\ UNCHANGED <<fileVars, seen, proc, sgen, crashes, circuit>>

\* stop_timeout_seconds passed.
Kill ==
  /\ spc = "wait" /\ KillChild(proc)
  /\ UNCHANGED hostVars

\* Mutant: the supervisor does not wait for the end of the process.
StoppedEarly ==
  /\ spc = "wait"
  /\ proc' = None
  /\ Reset(seen) /\ Proceed(seen, seen.enabled)
  /\ UNCHANGED <<vars, fileVars>>

\* The process has ended.
Stopped ==
  /\ spc = "wait" /\ Collect(proc)
  /\ proc' = None
  /\ Reset(seen) /\ Proceed(seen, seen.enabled)
  /\ UNCHANGED fileVars

\* The process of an enabled plugin has ended by itself.
Reap ==
  /\ spc = "rest" /\ proc # None /\ ~Alive(proc)
  /\ ~Reloading(control) /\ enabled
  /\ SendUnregister
  /\ spc' = "reap"
  /\ UNCHANGED <<fileVars, seen, proc, sgen, crashes, circuit>>

\* The crash is counted, older ones may have left the window; the circuit opens
\* or the backoff begins.
Reaped ==
  /\ spc = "reap" /\ Collect(proc)
  /\ proc' = None
  /\ \E n \in 1..crashes + 1 : crashes' = n /\ circuit' = (n >= CrashLimit)
  /\ spc' = "rest"
  /\ UNCHANGED <<fileVars, seen, sgen>>

\* No process: spawn one, unless the plugin is disabled or the circuit is open.
Review ==
  /\ spc = "rest" /\ proc = None
  /\ Reloading(control) \/ (enabled /\ ~circuit)
  /\ Reset(control) /\ Proceed(control, enabled /\ ~circuit')
  /\ UNCHANGED <<vars, fileVars, proc>>

\* The configuration is the one read at the beginning of the round.
Spawn ==
  /\ spc = "spawn"
  /\ \E c \in Child : Start(c, seen.config) /\ proc' = c
  /\ Proceed(seen, FALSE)
  /\ UNCHANGED <<fileVars, sgen, crashes, circuit>>

SpawnFails ==
  /\ spc = "spawn"
  /\ Proceed(seen, FALSE)
  /\ UNCHANGED <<vars, fileVars, proc, sgen, crashes, circuit>>

\* The container restarts: the children die with it, _states is empty.
SupervisorRestarts ==
  /\ AllGone
  /\ proc' = None /\ Proceed(seen, FALSE)
  /\ sgen' = generation /\ crashes' = 0 /\ circuit' = FALSE
  /\ UNCHANGED fileVars

-----------------------------------------------------------------------------
SupervisorStep ==
  \/ Stop \/ Terminate \/ Kill \/ Stopped \/ Reap \/ Reaped \/ Review \/ Spawn

Operator == Enable \/ Disable \/ Reload

HostNext ==
  \/ Next /\ UNCHANGED hostVars
  \/ SupervisorStep \/ SpawnFails \/ SupervisorRestarts
  \/ Operator

HostSpec == HostInit /\ [][HostNext]_allVars

\* Children, handlers and the supervisor go on by themselves, and a plugin can be
\* started unless spawn always fails; operators, callers and faults need not.
FairHostSpec ==
  /\ HostSpec
  /\ \A c \in Child : WF_allVars(ChildStep(c) /\ UNCHANGED hostVars)
  /\ \A c \in Child : WF_allVars(Saved(c) /\ UNCHANGED hostVars)
  /\ \A x \in Sender : WF_allVars((Unregister(x) \/ Forget(x)) /\ UNCHANGED hostVars)
  /\ \A p \in Poll : WF_allVars((Touched(p) \/ Answer(p)) /\ UNCHANGED hostVars)
  /\ WF_allVars(SupervisorStep)
  /\ SF_allVars(Spawn)

-----------------------------------------------------------------------------
(* Properties.                                                             *)

\* README.md: "plugin-runner now supervises one child process per plugin": a
\* child runs only while the supervisor has it, whatever reloads, crashes, kills
\* and restarts there are: none is left behind, no two serve the plugin.
OneChildPerPlugin == \A c \in Child : Alive(c) => proc = c

\* A child of the plugin polls the object that is registered.
Served == \E p \in Poll : polls[p].child = proc /\ proc # None /\ polls[p].on = reg /\ reg # None

\* reconcile and _serve: an enabled plugin with accepted manifest and closed
\* circuit is served again and again, whatever crashes, lost requests, late
\* unregisters and restarts came before, unless its child took an error of the
\* store for a refusal.
ServedAgain ==
  []<>(\/ ~granted \/ ~enabled \/ circuit
       \/ \E c \in Child : cpc[c] = "idle"
       \/ Served)
=============================================================================
