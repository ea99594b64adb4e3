---------------------------- MODULE TurnContract ----------------------------
(***************************************************************************)
(* What an agent turn promises, without saying how: tools run only inside  *)
(* a turn and at most MaxToolCalls times in it, and every token a turn     *)
(* bills is owed by that turn and billed once.  AgentTurn implements this. *)
(***************************************************************************)
EXTENDS Naturals

CONSTANTS Worker, Conversation, Day, MaxToolCalls

VARIABLES
    open,    \* the workers inside a turn
    runs,    \* w -> tools run in its turn
    owed,    \* w -> tokens its turn owes to the conversation's ledger
    ledger   \* Day -> Conversation -> tokens billed

contractVars == <<open, runs, owed, ledger>>

ContractInit ==
    /\ open = {}
    /\ runs = [w \in Worker |-> 0]
    /\ owed = [w \in Worker |-> 0]
    /\ ledger = [d \in Day |-> [c \in Conversation |-> 0]]

Open(w) ==
    /\ w \notin open
    /\ open' = open \cup {w}
    /\ runs' = [runs EXCEPT ![w] = 0]
    /\ owed' = [owed EXCEPT ![w] = 0]
    /\ UNCHANGED ledger

RunTool(w) ==
    /\ w \in open
    /\ runs[w] < MaxToolCalls
    /\ runs' = [runs EXCEPT ![w] = @ + 1]
    /\ UNCHANGED <<open, owed, ledger>>

Owe(w) ==
    /\ w \in open
    /\ owed'[w] \in Nat /\ owed'[w] >= owed[w]
    /\ owed' = [owed EXCEPT ![w] = owed'[w]]
    /\ UNCHANGED <<open, runs, ledger>>

\* A turn that fails is answered, but what it owed is never billed.
Forgive(w) ==
    /\ w \in open
    /\ owed' = [owed EXCEPT ![w] = 0]
    /\ UNCHANGED <<open, runs, ledger>>

\* The whole debt is billed to one conversation and one day.
Bill(w) ==
    /\ w \in open
    /\ \E d \in Day, c \in Conversation :
           ledger' = [ledger EXCEPT ![d][c] = @ + owed[w]]
    /\ owed' = [owed EXCEPT ![w] = 0]
    /\ UNCHANGED <<open, runs>>

\* The turn is over; what it still owed is forgotten.
Close(w) ==
    /\ w \in open
    /\ open' = open \ {w}
    /\ runs' = [runs EXCEPT ![w] = 0]
    /\ owed' = [owed EXCEPT ![w] = 0]
    /\ UNCHANGED ledger

ContractNext ==
    \E w \in Worker : Open(w) \/ RunTool(w) \/ Owe(w) \/ Forgive(w) \/ Bill(w) \/ Close(w)

ContractSpec == ContractInit /\ [][ContractNext]_contractVars
=============================================================================
