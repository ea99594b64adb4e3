--------------------------- MODULE MCPluginBroker ---------------------------
(* PluginBroker for TLC.                                                    *)
EXTENDS PluginBroker, TLC

\* State constraint: the last configuration is saved when nothing is called.
LastConfigAlone == config = MaxConfig => \A i \in Call : call[i] = "idle"
=============================================================================
