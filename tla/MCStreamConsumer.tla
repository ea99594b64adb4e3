-------------------------- MODULE MCStreamConsumer --------------------------
(* StreamConsumer for TLC: replicas are interchangeable.                    *)
EXTENDS StreamConsumer, TLC

ConsumerSymmetry == Permutations(Consumer)
=============================================================================
