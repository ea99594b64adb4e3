----------------------- MODULE MCKnowledgeIngestion -----------------------
(* KnowledgeIngestion for TLC: tasks of a few documents with one content.   *)
EXTENDS KnowledgeIngestion, TLC

Tasks == Document \X (1..MaxGeneration)
SameContent == [d \in Document |-> "text"]
ConsumerSymmetry == Permutations(Consumer)

\* State constraint: a crash (of a worker at a first generation), a stall or a task
\* published twice, one of them.
PublishedTwice == \E i, j \in 1..Len(log) : i < j /\ log[i] = log[j]
OneDisturbance ==
  /\ faults + stalls + (IF PublishedTwice THEN 1 ELSE 0) <= 1
  /\ faults = 1 => \A d \in Document : generation[d] <= 1
=============================================================================
