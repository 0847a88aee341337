---------------------------- MODULE MCBotControl ----------------------------
(* A small instance of BotControl.                                          *)
EXTENDS BotControl

CONSTANTS b1, b2, c1, c2
=============================================================================
