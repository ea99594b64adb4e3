----------------------------- MODULE FrontDoor -----------------------------
(***************************************************************************)
(* What happens to a message around its turn: _handle_serialized of        *)
(* services/agent_worker.py, which checks access, moderates the message,   *)
(* resolves the profile, decides, asks the guards, answers, moderates the  *)
(* answer and publishes it or hands it to the evaluation; while operators  *)
(* change policies, profiles and requests through the api.                 *)
(***************************************************************************)
EXTENDS Pairing, Moderation, TurnGuards, Evaluation

vars == <<handlerVars, pairingVars, moderationVars, guardVars, profileVars, evaluationVars>>

Init ==
    /\ HandlersInit /\ PairingInit /\ ModerationInit
    /\ GuardsInit /\ ProfilesInit /\ EvaluationInit

\* A message begins to be handled, under the lease of its conversation.
Receive(p, s, c) ==
    /\ c \in {s, Group}
    /\ \A q \in Proc : place[q] # c
    /\ Begin(p, s, c, 0, "access")
    /\ UNCHANGED evaluationVars

ReceiveCase(p, e) ==
    /\ e \in posted
    /\ posted' = posted \ {e}
    /\ Begin(p, Evaluator, e, 0, "access")
    /\ UNCHANGED <<result, run, overlapped>>

\* decide_turn: a direct message is answered; in a group only one that
\* mentions or answers the bot, or a command.
Decisions(c) == {"command", "agent"} \cup IF c = Group THEN {"ignore"} ELSE {}

\* ReplyWillingnessScorer.evaluate: the score may reach the threshold.
Evaluated == {"agent", "ignore"}

\* _apply_willingness: a profile's willingness may take up an ignored message
\* of a group; if the scorer fails, the decision stands.
Willing(d, resolved) == IF d = "ignore" /\ resolved THEN Evaluated ELSE {d}

\* _resolve_profile: if that fails, the turn goes on without a profile.
ResolveProfile(c, resolved) ==
    \/ resolved /\ Resolve(c)
    \/ ~resolved /\ UNCHANGED profileVars

\* The turn is decided and given to the guards.
Decide(p) ==
    /\ stage[p] = "decide"
    /\ \E d \in Decisions(place[p]), resolved \in BOOLEAN :
           /\ ResolveProfile(place[p], resolved)
           /\ \E w \in Willing(d, resolved) :
                  \/ w = "ignore" /\ Done(p)
                  \/ w # "ignore" /\ Guarded(p, w)

\* _moderate_inbound: a flagged message is answered with the preset text or
\* goes on with its text replaced.
ModerateInbound(p) ==
    /\ stage[p] = "moderate"
    /\ Moderate(Goto(p, "decide"), Done(p) \/ Goto(p, "decide"))

\* complete_shadow: the assertions are evaluated, the judge is asked (its failure
\* is noted in the result) and the result is completed.
CompleteShadow(p) == place[p] \in Case /\ CountCompleted(p)

\* The answer (of the agent, an annotation, a command or a refusal) is
\* moderated; withheld or not, what is left of it is published, or recorded
\* as the result of the case.
Deliver(p) ==
    \/ place[p] \notin Case /\ Done(p) /\ UNCHANGED <<profileVars, evaluationVars>>
    \/ CompleteShadow(p)

Answer(p) ==
    /\ stage[p] = "answer"
    /\ Moderate(Deliver(p), Deliver(p))

PairingStep ==
    /\ \/ \E p \in Proc : CheckAccess(p) \/ RequestPairing(p) \/ InsertRequest(p)
       \/ \E p \in Proc, s \in Subject : GeneratePairing(p, s)
       \/ SetPolicy
       \/ \E r \in 1..MaxRequest : ApproveRequest(r) \/ DismissRequest(r) \/ RequestLapses(r)
    /\ UNCHANGED <<moderationVars, guardVars, profileVars, evaluationVars>>

GuardStep ==
    /\ \/ \E p \in Proc : CountUser(p) \/ CountChat(p) \/ Cool(p) \/ GuardFails(p)
       \/ MinutePasses \/ CooldownEnds
    /\ UNCHANGED <<pairingVars, moderationVars, profileVars, evaluationVars>>

ProfileStep ==
    /\ \/ CreateProfile
       \/ \E k \in Profile : UpdateProfile(k) \/ DeleteProfile(k)
       \/ \E c \in Place, k \in 0..MaxProfile : BindProfile(c, k)
       \/ \E p \in Proc, k \in Profile : EditPersona(p, k) \/ RollbackPersona(p, k)
       \/ \E p \in Proc : PersonaReads(p) \/ PersonaWrites(p)
    /\ UNCHANGED <<pairingVars, moderationVars, guardVars, evaluationVars>>

EvaluationStep ==
    /\ \E p \in Proc :
           \/ \E k \in 0..MaxProfile : StartRun(p, k)
           \/ SeedCase(p) \/ SeedFails(p) \/ CompleteResult(p)
    /\ UNCHANGED <<pairingVars, moderationVars, guardVars>>

MessageStep ==
    \E p \in Proc :
        \/ /\ \/ \E s \in Subject, c \in Subject \cup {Group} : Receive(p, s, c)
              \/ \E e \in Case : ReceiveCase(p, e)
              \/ Fails(p) /\ UNCHANGED evaluationVars
           /\ UNCHANGED <<pairingVars, moderationVars, guardVars, profileVars>>
        \/ ModerateInbound(p) /\ UNCHANGED <<pairingVars, guardVars, profileVars, evaluationVars>>
        \/ Decide(p) /\ UNCHANGED <<pairingVars, moderationVars, guardVars, evaluationVars>>
        \/ Answer(p) /\ UNCHANGED <<pairingVars, guardVars>>

OperatorStep ==
    /\ EditModeration
    /\ UNCHANGED <<pairingVars, guardVars, profileVars, evaluationVars>>

Next ==
    PairingStep \/ GuardStep \/ ProfileStep \/ EvaluationStep \/ MessageStep \/ OperatorStep

Spec == Init /\ [][Next]_vars
=============================================================================
