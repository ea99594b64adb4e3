----------------------------- MODULE Evaluation -----------------------------
(***************************************************************************)
(* One shadow evaluation run: EvaluationRepository of repositories/        *)
(* safety.py, the sink of evaluation.py and the operator's request that    *)
(* seeds the cases.  Each case is a message of its own conversation.       *)
(***************************************************************************)
EXTENDS Profiles

VARIABLES
    result,      \* case -> NONE, QUEUED, RUNNING or COMPLETED
    run,         \* the status and the completed count of the run
    posted,      \* the cases whose message is on the stream
    overlapped   \* history: two results were completed at the same time

evaluationVars == <<result, run, posted, overlapped>>

EvaluationTypeOK ==
    /\ result \in [Case -> {"NONE", "QUEUED", "RUNNING", "COMPLETED"}]
    /\ run \in [status : {"NONE", "QUEUED", "RUNNING", "COMPLETED"}, completed : 0..MaxCase]
    /\ posted \subseteq Case
    /\ overlapped \in BOOLEAN

EvaluationInit ==
    /\ result = [e \in Case |-> "NONE"]
    /\ run = [status |-> "NONE", completed |-> 0]
    /\ posted = {} /\ overlapped = FALSE

Completed == {e \in Case : result[e] = "COMPLETED"}

\* create_run: the run and all its results are queued.
CreateRun ==
    /\ result' = [e \in Case |-> "QUEUED"]
    /\ run' = [status |-> "QUEUED", completed |-> 0]

\* The operator starts a run, for a profile or for none; the request then seeds
\* the cases one after the other.
StartRun(p, k) ==
    /\ run.status = "NONE"
    /\ k # 0 => Exists(k)
    /\ Begin(p, None, None, k, "seed")
    /\ CreateRun
    /\ UNCHANGED <<profileVars, posted, overlapped>>

\* attach_conversation: result and run are running.
AttachConversation(e) ==
    /\ result' = [result EXCEPT ![e] = "RUNNING"]
    /\ run' = [run EXCEPT !.status = "RUNNING"]

\* _seed_evaluation_case binds the conversation, attaches it and publishes the
\* question ...
SeedCase(p) ==
    LET e == base[p] + 1
    IN  /\ stage[p] = "seed" /\ e \in Case
        /\ pick[p] # 0 => Exists(pick[p])
        /\ binding' = IF pick[p] = 0 THEN binding ELSE [binding EXCEPT ![e] = pick[p]]
        /\ AttachConversation(e)
        /\ posted' = posted \cup {e}
        /\ IF e = MaxCase THEN Done(p) ELSE Read(p, "seed", e)
        /\ UNCHANGED <<versions, active, named, overlapped>>

\* ... and raises when the profile is gone: the remaining cases stay queued.
SeedFails(p) ==
    /\ stage[p] = "seed" /\ pick[p] # 0 /\ ~Exists(pick[p])
    /\ Done(p) /\ UNCHANGED <<profileVars, evaluationVars>>

\* Mutant: the completed results are counted before its own is updated.
CountCompletedBefore(p) ==
    /\ Read(p, "complete", Cardinality(Completed))
    /\ overlapped' = (overlapped \/ \E q \in Proc : stage[q] = "complete")
    /\ UNCHANGED <<profileVars, result, run, posted>>

\* complete(): its own result is updated and the completed ones are counted,
\* among them those of other transactions only once these have committed ...
CountCompleted(p) ==
    /\ Read(p, "complete", Cardinality(Completed \cup {place[p]}))
    /\ overlapped' = (overlapped \/ \E q \in Proc : stage[q] = "complete")
    /\ UNCHANGED <<profileVars, result, run, posted>>

\* ... and the run is updated from the count, in the same commit.
CompleteResult(p) ==
    /\ stage[p] = "complete"
    /\ result' = [result EXCEPT ![place[p]] = "COMPLETED"]
    /\ run' = [status |-> IF base[p] >= MaxCase THEN "COMPLETED" ELSE "RUNNING",
               completed |-> base[p]]
    /\ Done(p) /\ UNCHANGED <<profileVars, posted, overlapped>>

\* A run reads COMPLETED only when every case is, its count never exceeds the
\* completed results, and it is exact as long as no two workers completed
\* results of the run at the same time.
RunCounts ==
    /\ run.status = "COMPLETED" => Completed = Case
    /\ run.completed <= Cardinality(Completed)
    /\ ~overlapped => /\ run.completed = Cardinality(Completed)
                      /\ Completed = Case => run.status \in {"NONE", "COMPLETED"}
=============================================================================
