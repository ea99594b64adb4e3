---------------------------- MODULE MCPluginHost ----------------------------
(* PluginHost for TLC.  Objects and polls are interchangeable, but liveness *)
(* is checked: no symmetry.                                                 *)
EXTENDS PluginHost, TLC
=============================================================================
