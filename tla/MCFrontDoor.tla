---------------------------- MODULE MCFrontDoor ----------------------------
(***************************************************************************)
(* Model checking FrontDoor: two processes, two interchangeable senders;   *)
(* and the matcher of the local moderation backend on short texts.         *)
(***************************************************************************)
EXTENDS FrontDoor, Matcher, TLC

\* State constraint: a failure is a handler's or the moderation hook's, and a hook
\* that raises lets a text through that a backend objects to (with any other text
\* everything goes on in the same way, and one more leak would be allowed).
OneFailure == faults + raised <= MaxFaults /\ leaked >= raised

Symmetry == {f @@ g : f \in Permutations(Proc), g \in Permutations(Subject)}
=============================================================================
