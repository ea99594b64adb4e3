------------------------ MODULE MCTelegramTransport ------------------------
(* TelegramTransport for TLC; the constants are plain numbers and sets.     *)
EXTENDS TelegramTransport
=============================================================================
