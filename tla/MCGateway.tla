----------------------------- MODULE MCGateway -----------------------------
(* Gateway for TLC: every reply has two segments.                           *)
EXTENDS Gateway, TLC

TwoSegments == [m \in Envelope |-> 2]
ConsumerSymmetry == Permutations(Consumer)
=============================================================================
