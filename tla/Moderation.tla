----------------------------- MODULE Moderation -----------------------------
(***************************************************************************)
(* The moderation chain of security/moderation.py, as the agent worker     *)
(* calls it for the inbound message and for the reply.  A backend clears   *)
(* a text, flags it, or fails (an error, a timeout, or it is missing).     *)
(* A call reads the policy once, so it is one step, however it ends: the   *)
(* read of the policy or the audit record awaited after a backend may also *)
(* raise, after a flag too, and the worker takes an error for a clearance. *)
(***************************************************************************)
EXTENDS Handlers, Sequences

CONSTANT Backends  \* how many backends the policy names
ASSUME ModerationAssumption == Backends \in Nat

VARIABLES
    mode,    \* the policy of both points: off, or on with its fail_mode, open or closed
    leaked,  \* history: how many texts got through that a backend flags, or fails
             \* on when closed
    raised   \* history: how many calls of the hook raised

moderationVars == <<mode, leaked, raised>>

Modes == {"off", "open", "closed"}

ModerationTypeOK == mode \in Modes /\ leaked \in Nat /\ raised \in 0..MaxFaults

\* The default policy: one local backend, fail_mode open.
ModerationInit == mode = "open" /\ leaked = 0 /\ raised = 0

Verdicts == [1..Backends -> {"clear", "flag", "error"}]

\* Mutant: a failing backend ends the chain when the mode is open.
FlaggedUpToError(v, closed) ==
    \E i \in 1..Backends :
        /\ v[i] = "flag" \/ (v[i] = "error" /\ closed)
        /\ \A j \in 1..(i - 1) : v[j] = "clear"

\* moderate(): the first backend that flags, or fails while the mode is
\* closed, decides; one that clears or fails while it is open passes on.
Flagged(v, closed) ==
    \E i \in 1..Backends :
        /\ v[i] = "flag" \/ (v[i] = "error" /\ closed)
        /\ \A j \in 1..(i - 1) : v[j] = "clear" \/ (v[j] = "error" /\ ~closed)

\* What a backend would have withheld, whichever it is.
Objected(v, closed) == \E i \in 1..Backends : v[i] = "flag" \/ (v[i] = "error" /\ closed)

Outcomes(closed) ==
    {[flagged |-> Flagged(v, closed), objected |-> Objected(v, closed)] : v \in Verdicts}

\* A text goes through, whatever the backends would have it.
LetThrough(objected) == leaked' = IF objected THEN leaked + 1 ELSE leaked

\* moderate() raises, in its first read or in an audit.
HookRaises ==
    /\ raised < MaxFaults /\ raised' = raised + 1
    /\ \E o \in Outcomes(mode = "closed") : LetThrough(o.objected)

\* _moderate_inbound and _moderated: a text goes through when moderation is
\* off, the chain does not flag it, or the hook raises.
Moderate(Passes, Withheld) ==
    /\ \/ mode = "off" /\ Passes /\ UNCHANGED <<leaked, raised>>
       \/ /\ mode # "off"
          /\ \E o \in Outcomes(mode = "closed") :
                 \/ o.flagged /\ Withheld /\ UNCHANGED leaked
                 \/ ~o.flagged /\ Passes /\ LetThrough(o.objected)
          /\ UNCHANGED raised
       \/ mode # "off" /\ Passes /\ HookRaises
    /\ UNCHANGED mode

\* The operator edits the policy.
EditModeration ==
    /\ mode' \in Modes \ {mode}
    /\ Request
    /\ UNCHANGED <<leaked, raised>>

\* moderate, _moderate_inbound and _moderated: texts that one of the backends
\* flags or, when moderation is to fail closed, could not judge get through no
\* more often than calls of the hook raise, whatever the other backends answer.
FlaggedIsWithheld == leaked <= raised
=============================================================================
