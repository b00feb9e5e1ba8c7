---------------------------- MODULE MCBotControl ----------------------------
(* BotControl on a short chain with one route.                             *)
EXTENDS BotControl

CONSTANT r1
=============================================================================
