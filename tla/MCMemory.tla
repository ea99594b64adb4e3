------------------------------ MODULE MCMemory ------------------------------
\* One subject who talks in a group and in a direct conversation.
EXTENDS Memory, TLC

CONSTANTS s1, grp, dm, p1, p2, persona, gone

\* State constraint: a merge makes a relationship row of its own only without
\* overlapping writes, and as one of the first three jobs.
LooseAlone == loose # {} => ~overlapped /\ jobs < MaxJobs

EveryoneTalks == [c \in Conversation |-> Subject]
Symmetric == Permutations(Proc)
=============================================================================
