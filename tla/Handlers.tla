------------------------------ MODULE Handlers ------------------------------
(***************************************************************************)
(* The processes behind the front door: each handles one message (agent    *)
(* workers, under the lease of its conversation) or one request of an      *)
(* operator (the api).  Their stages are shared by the modules below; a    *)
(* lock of the database is held from the step that takes it to the step    *)
(* that commits, and shows as the stage of its holder.                     *)
(***************************************************************************)
EXTENDS Naturals, FiniteSets

CONSTANTS
    Proc,
    Subject,    \* the senders; the direct conversation of a sender is named after it
    Evaluator,  \* the sender of evaluation messages
    Group,      \* a group conversation
    None,
    MaxCase,    \* bound: evaluation cases; the conversation of a case is its number
    MaxJobs,    \* bound: messages and operator requests
    MaxFaults   \* bound: failures

ASSUME HandlersAssumption ==
    /\ IsFiniteSet(Proc)
    /\ Evaluator \notin Subject /\ Group \notin Subject \cup {Evaluator}
    /\ None \notin Subject \cup {Evaluator, Group}
    /\ \A e \in 1..MaxCase : e \notin Subject \cup {Group, None}
    /\ MaxCase \in Nat \ {0}  \* an empty selection of cases is refused
    /\ MaxJobs \in Nat /\ MaxFaults \in Nat

User == Subject \cup {Evaluator}
Case == 1..MaxCase
Place == Subject \cup {Group} \cup Case

VARIABLES
    stage,   \* p -> what it is doing
    who,     \* p -> the sender of its message
    place,   \* p -> the conversation of its message
    pick,    \* p -> the profile its request is about, 0 for none
    base,    \* p -> the number it has read: a minute, a count, a version, a case
    jobs, faults

handlerVars == <<stage, who, place, pick, base, jobs, faults>>

Stages == {"idle", "access", "ask", "insert", "moderate", "decide", "countUser",
           "countChat", "cool", "answer", "complete", "seed", "edit", "version"}

HandlersTypeOK ==
    /\ stage \in [Proc -> Stages]
    /\ who \in [Proc -> User \cup {None}]
    /\ place \in [Proc -> Place \cup {None}]
    /\ pick \in [Proc -> Nat] /\ base \in [Proc -> Nat]
    /\ jobs \in 0..MaxJobs /\ faults \in 0..MaxFaults

HandlersInit ==
    /\ stage = [p \in Proc |-> "idle"]
    /\ who = [p \in Proc |-> None] /\ place = [p \in Proc |-> None]
    /\ pick = [p \in Proc |-> 0] /\ base = [p \in Proc |-> 0]
    /\ jobs = 0 /\ faults = 0

\* A job begins at a stage: a message of a sender in a conversation, or a
\* request about a profile.
Begin(p, s, c, k, at) ==
    /\ stage[p] = "idle" /\ jobs < MaxJobs
    /\ jobs' = jobs + 1
    /\ stage' = [stage EXCEPT ![p] = at]
    /\ who' = [who EXCEPT ![p] = s] /\ place' = [place EXCEPT ![p] = c]
    /\ pick' = [pick EXCEPT ![p] = k]
    /\ UNCHANGED <<base, faults>>

Goto(p, at) ==
    /\ stage' = [stage EXCEPT ![p] = at]
    /\ UNCHANGED <<who, place, pick, base, jobs, faults>>

\* Goto with a number read on the way.
Read(p, at, n) ==
    /\ stage' = [stage EXCEPT ![p] = at]
    /\ base' = [base EXCEPT ![p] = n]
    /\ UNCHANGED <<who, place, pick, jobs, faults>>

Return(p) ==
    /\ stage' = [stage EXCEPT ![p] = "idle"]
    /\ who' = [who EXCEPT ![p] = None] /\ place' = [place EXCEPT ![p] = None]
    /\ pick' = [pick EXCEPT ![p] = 0] /\ base' = [base EXCEPT ![p] = 0]

Done(p) == Return(p) /\ UNCHANGED <<jobs, faults>>

\* A request that takes no time of its own: one transaction.
Request ==
    /\ jobs < MaxJobs /\ jobs' = jobs + 1
    /\ UNCHANGED <<stage, who, place, pick, base, faults>>

\* Time and other people's changes.
Outside == UNCHANGED handlerVars

\* The process ends or its handler raises: open transactions are rolled back.
Fails(p) ==
    /\ stage[p] # "idle" /\ faults < MaxFaults
    /\ faults' = faults + 1
    /\ Return(p) /\ UNCHANGED jobs
=============================================================================
