---------------------------- MODULE MCAgentTurn ----------------------------
\* A preferred channel and a spare one, which an operator may switch off.
EXTENDS AgentTurn

CONSTANTS m1, m2, w1, w2, k1, k2, k3

TwoSlots == <<m1, m2>>
Preferred == [c \in Channel |-> IF c = m1 THEN 0 ELSE 1]
DefaultTier == [c \in Channel |-> "default"]
WithAndWithout == {{m1, m2}, {}}
Symmetric == Permutations(Worker) \cup Permutations(Conversation)
=============================================================================
