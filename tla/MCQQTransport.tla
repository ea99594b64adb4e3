--------------------------- MODULE MCQQTransport ---------------------------
(* QQTransport for TLC: its constants are numbers.                          *)
EXTENDS QQTransport
=============================================================================
