------------------------------ MODULE Pairing ------------------------------
(***************************************************************************)
(* Access of direct chats to one connection: security/pairing.py and       *)
(* repositories/pairing.py.                                                *)
(***************************************************************************)
EXTENDS Handlers

CONSTANTS
    PendingLimit,  \* pending_limit
    MaxRequest     \* bound: pairing requests

ASSUME PairingAssumption == PendingLimit \in Nat \ {0} /\ MaxRequest \in Nat

VARIABLES
    policy,     \* open, paired or allowlist
    allowlist,
    approved,   \* the subjects with a pairing_approval
    asker,      \* the subjects of the pairing requests, oldest first
    verdict     \* what became of each: PENDING, APPROVED, DISMISSED, EXPIRED

pairingVars == <<policy, allowlist, approved, asker, verdict>>

PairingTypeOK ==
    /\ policy \in {"open", "paired", "allowlist"}
    /\ allowlist \subseteq Subject /\ approved \subseteq Subject
    /\ asker \in [1..MaxRequest -> Subject \cup {None}]
    /\ verdict \in [1..MaxRequest -> {"NONE", "PENDING", "APPROVED", "DISMISSED", "EXPIRED"}]

PairingInit ==
    /\ policy \in {"open", "paired"}
    /\ allowlist = {} /\ approved = {}
    /\ asker = [r \in 1..MaxRequest |-> None]
    /\ verdict = [r \in 1..MaxRequest |-> "NONE"]

\* A stranger of the connection: no pairing_approval (is_approved).
IsApproved(s) == s \in approved

\* pending(): the requests that have been neither decided nor expired.
Live == {r \in 1..MaxRequest : verdict[r] = "PENDING"}

\* check(): groups and the evaluation connection are open; otherwise the policy
\* decides, and a stranger of a paired connection has to ask.
CheckAccess(p) ==
    /\ stage[p] = "access"
    /\ \/ /\ \/ place[p] \notin Subject \/ policy = "open"
             \/ policy = "allowlist" /\ who[p] \in allowlist
             \/ policy = "paired" /\ IsApproved(who[p])
          /\ Goto(p, "moderate")
       \/ /\ place[p] \in Subject
          /\ policy = "allowlist" /\ who[p] \notin allowlist
          /\ Done(p)
       \/ /\ place[p] \in Subject
          /\ policy = "paired" /\ ~IsApproved(who[p])
          /\ Goto(p, "ask")
    /\ UNCHANGED pairingVars

\* Mutant: no advisory lock around the count and the insert.
RequestUnlocked(p) ==
    /\ stage[p] = "ask"
    /\ \/ /\ \/ \E r \in Live : asker[r] = who[p]
             \/ Cardinality(Live) >= PendingLimit
          /\ Done(p)
       \/ /\ \A r \in Live : asker[r] # who[p]
          /\ Cardinality(Live) < PendingLimit
          /\ Goto(p, "insert")
    /\ UNCHANGED pairingVars

\* request(): under the connection's advisory lock, a live request of the
\* subject or a full queue ends the matter ...
RequestPairing(p) ==
    /\ stage[p] = "ask"
    /\ \A q \in Proc : stage[q] # "insert"
    /\ \/ /\ \/ \E r \in Live : asker[r] = who[p]
             \/ Cardinality(Live) >= PendingLimit
          /\ Done(p)
       \/ /\ \A r \in Live : asker[r] # who[p]
          /\ Cardinality(Live) < PendingLimit
          /\ Goto(p, "insert")
    /\ UNCHANGED pairingVars

\* ... else a request is inserted and its code is sent to the subject.
InsertRequest(p) ==
    /\ stage[p] = "insert"
    /\ \E r \in 1..MaxRequest :
           /\ verdict[r] = "NONE" /\ \A e \in 1..(r - 1) : verdict[e] # "NONE"
           /\ asker' = [asker EXCEPT ![r] = who[p]]
           /\ verdict' = [verdict EXCEPT ![r] = "PENDING"]
    /\ Done(p)
    /\ UNCHANGED <<policy, allowlist, approved>>

\* generate_pairing: the operator asks on behalf of a subject.
GeneratePairing(p, s) ==
    /\ Begin(p, s, None, 0, "ask")
    /\ UNCHANGED pairingVars

\* set_policy: the allowlist is read by its own policy only.
StorePolicy(name, list) ==
    /\ policy' = name
    /\ allowlist' = list
    /\ UNCHANGED <<approved, asker, verdict>>

\* The operator sets the policy of the connection.
SetPolicy ==
    /\ \E name \in {"open", "paired", "allowlist"}, list \in SUBSET Subject :
           /\ name # policy /\ (name = "allowlist" \/ list = {})
           /\ StorePolicy(name, list)
    /\ Request

\* approve: the request is marked and the approval upserted in one transaction.
Approve(r) ==
    /\ verdict[r] = "PENDING"
    /\ verdict' = [verdict EXCEPT ![r] = "APPROVED"]
    /\ approved' = approved \cup {asker[r]}
    /\ UNCHANGED <<policy, allowlist, asker>>

Dismiss(r) ==
    /\ verdict[r] = "PENDING"
    /\ verdict' = [verdict EXCEPT ![r] = "DISMISSED"]
    /\ UNCHANGED <<policy, allowlist, approved, asker>>

\* The operator's decisions; one that comes too late is answered with a 404.
ApproveRequest(r) == Approve(r) /\ Outside
DismissRequest(r) == Dismiss(r) /\ Outside

\* expires_at passes: an hour after the request.
RequestLapses(r) ==
    /\ verdict[r] = "PENDING"
    /\ verdict' = [verdict EXCEPT ![r] = "EXPIRED"]
    /\ Outside
    /\ UNCHANGED <<policy, allowlist, approved, asker>>

\* Strangers cannot flood the operator: at every moment at most pending_limit
\* requests wait on a connection, at most one of them by the same subject.
PairingBounded ==
    /\ Cardinality(Live) <= PendingLimit
    /\ \A r, e \in Live : asker[r] = asker[e] => r = e
=============================================================================
