--------------------------- MODULE MCAgentWorker ---------------------------
(* AgentWorker for TLC: one conversation, the case in which turns collide.  *)
EXTENDS AgentWorker, TLC

OneConversation == [e \in Envelope |-> CHOOSE k \in Conversation : TRUE]
ConsumerSymmetry == Permutations(Consumer)
=============================================================================
